---- MODULE Spec2Model ----
(***************************************************************************)
(* A model of the ecreceive ingestion pipeline: the directory watcher,     *)
(* the job distributor, the worker threads running                         *)
(* DatasetPublisher.process_file, the checkpoint thread that owns the      *)
(* Checkpoint store, the main thread's startup recovery, and the           *)
(* environment around them (the sender writing into the spool directory,   *)
(* the Productstatus catalog going away and coming back, rename failures,  *)
(* process death and restart).                                             *)
(***************************************************************************)
EXTENDS Integers, Sequences, FiniteSets, TLC

(***************************************************************************)
(* Bounds of the model.                                                    *)
(***************************************************************************)
NumKeys == 2          \* dataset names the sender chooses from
MaxDatasets == 1      \* datasets the sender writes
NumWorkers == 2       \* worker_threads of the configuration
MaxKills == 1         \* times the process is killed from outside
MaxRemovals == 1      \* spool files that are taken away again
MaxFails == 6         \* failures of the function retry_n is called with
MaxEvents == 3        \* inotify events handed to the watcher on its own

Keys == 1..NumKeys
Workers == 1..NumWorkers

None == "None"

(***************************************************************************)
(* Checkpoint flags (checkpoint.py).                                       *)
(***************************************************************************)
CHECKPOINT_DATASET_NOFLAGS == 0
CHECKPOINT_DATASET_EXISTS == 1
CHECKPOINT_DATASET_MOVED == 2
CHECKPOINT_DATASET_LOCKED == 4

\* Python's a | b on the flag masks.
RECURSIVE BitOr(_, _)
BitOr(a, b) ==
    IF a = 0 THEN b
    ELSE IF b = 0 THEN a
    ELSE 2 * BitOr(a \div 2, b \div 2) + (IF a % 2 = 1 \/ b % 2 = 1 THEN 1 ELSE 0)

\* Python's a & b.
RECURSIVE BitAnd(_, _)
BitAnd(a, b) ==
    IF a = 0 \/ b = 0 THEN 0
    ELSE 2 * BitAnd(a \div 2, b \div 2) + (IF a % 2 = 1 /\ b % 2 = 1 THEN 1 ELSE 0)

\* Python's a & ~b (for the non-negative masks of the store).
RECURSIVE BitAndNot(_, _)
BitAndNot(a, b) ==
    IF a = 0 THEN 0
    ELSE 2 * BitAndNot(a \div 2, b \div 2) + (IF a % 2 = 1 /\ b % 2 = 0 THEN 1 ELSE 0)

(***************************************************************************)
(* Checkpoint (checkpoint.py): the operations on the in-memory _states     *)
(* map, a function from the keys present to their masks.                   *)
(***************************************************************************)
EmptyStates == [k \in {} |-> 0]

get(s, key) == IF key \notin DOMAIN s THEN 0 ELSE s[key]

add(s, key, state) ==
    [k \in DOMAIN s \cup {key} |->
        IF k = key THEN BitOr(get(s, key), state) ELSE s[k]]

subtract(s, key, state) ==
    [k \in DOMAIN s \cup {key} |->
        IF k = key THEN BitAndNot(get(s, key), state) ELSE s[k]]

\* (mutant) lock that grants every request
lock_rc_granting(s, key) == TRUE

\* lock returns False without touching the map when LOCKED is set.
lock_rc(s, key) == BitAnd(get(s, key), CHECKPOINT_DATASET_LOCKED) = 0

\* (mutant) lock that does not set the flag
lock_unmarked(s, key) == s

lock(s, key) ==
    IF lock_rc(s, key) THEN add(s, key, CHECKPOINT_DATASET_LOCKED) ELSE s

\* (mutant) unlock that clears every flag of the key
unlock_clearing(s, key) == subtract(s, key, 7)

\* (mutant) unlock that leaves the flag where it is
unlock_keeping(s, key) == s

unlock(s, key) == subtract(s, key, CHECKPOINT_DATASET_LOCKED)

delete(s, key) == [k \in DOMAIN s \ {key} |-> s[k]]

keys(s) == DOMAIN s

(***************************************************************************)
(* The state file: json.dumps(sort_keys=True) writes the map as the list   *)
(* of its key/value pairs in key order; json.loads builds the map again.   *)
(* A file is a record: whether it exists, whether its text holds white     *)
(* space, and the JSON documents in its text (none or one).                *)
(***************************************************************************)
Missing == [exists |-> FALSE, ws |-> FALSE, doc |-> <<>>]

RECURSIVE SortedPairs(_, _)
SortedPairs(s, todo) ==
    IF todo = {} THEN <<>>
    ELSE LET k == CHOOSE x \in todo : \A y \in todo : x <= y
         IN <<(<<k, s[k]>>)>> \o SortedPairs(s, todo \ {k})

json_dumps(s) == SortedPairs(s, DOMAIN s)

json_loads(data) ==
    [k \in {data[i][1] : i \in 1..Len(data)} |->
        LET i == CHOOSE j \in 1..Len(data) : data[j][1] = k IN data[i][2]]

\* 'if data:' in Checkpoint.load: the text read is not the empty string
data_read(file) == file.ws \/ file.doc # <<>>

\* json.loads(data) raises ValueError for a text with no JSON document in
\* it; Checkpoint.load catches IOError only
load_raises(file) == file.exists /\ data_read(file) /\ file.doc = <<>>

\* Checkpoint.load: IOError (no file) and empty data both leave {}.
load(file) ==
    IF ~file.exists THEN EmptyStates
    ELSE IF ~data_read(file) THEN EmptyStates
    ELSE IF file.doc = <<>> THEN EmptyStates
    ELSE json_loads(file.doc[1])

\* (mutant) save that empties the file
save_truncating(s) == [exists |-> TRUE, ws |-> FALSE, doc |-> <<>>]

\* Checkpoint.save
save(s) == [exists |-> TRUE, ws |-> FALSE, doc |-> <<json_dumps(s)>>]

RECURSIVE UnlockEach(_, _)
UnlockEach(s, todo) ==
    IF todo = {} THEN s
    ELSE LET k == CHOOSE x \in todo : TRUE
         IN UnlockEach(unlock(s, k), todo \ {k})

\* (mutant) unlock_all that forgets the keys left without a flag
unlock_all_forgetting(file) ==
    LET s == UnlockEach(load(file), DOMAIN load(file))
    IN [k \in {x \in DOMAIN s : s[x] # 0} |-> s[k]]

\* (mutant) unlock_all that loads and unlocks nothing
unlock_all_loading(file) == load(file)

\* Checkpoint.unlock_all: load, then unlock every key.
unlock_all(file) == LET s == load(file) IN UnlockEach(s, DOMAIN s)

(***************************************************************************)
(* File names and paths.  A file name is the dataset's name with or        *)
(* without the ".md5" suffix; a path is a directory and a file name.       *)
(***************************************************************************)
DataSuffix == ""
Md5Suffix == ".md5"
Suffixes == {DataSuffix, Md5Suffix}

FileNames == Keys \X Suffixes

spool_path == "spool"
destination_path == "destination"
Directories == {spool_path, destination_path}

Path(dir, name) == [dir |-> dir, name |-> name]

\* Dataset.is_md5_path: path[-4:] == ".md5"
is_md5_path(path) == path.name[2] = Md5Suffix

\* Dataset.data_to_md5_path: path + ".md5"
data_to_md5_path(path) == Path(path.dir, <<path.name[1], Md5Suffix>>)

\* Dataset.md5_to_data_path: path[:-4]
md5_to_data_path(path) == Path(path.dir, <<path.name[1], DataSuffix>>)

\* Dataset.__init__ / _derive_paths
Dataset(path) ==
    IF is_md5_path(path)
    THEN [data_path |-> md5_to_data_path(path), md5_path |-> path]
    ELSE [data_path |-> path, md5_path |-> data_to_md5_path(path)]

\* os.path.basename(self.data_path), also the checkpoint key
data_filename(ds) == ds.data_path.name

get_dataset_key(ds) == data_filename(ds)[1]

\* What a worker's locals hold while it is not in process_file
NoRequest == <<0, DataSuffix>>
NoPath == Path("", NoRequest)
NoDataset == [data_path |-> NoPath, md5_path |-> NoPath]

\* The names the sender uses: the odd ones are laid out like
\* BFS11120600111511001, the even ones like foo, for which parse_filename
\* raises InvalidFilenameException (int('') is a ValueError).
WellFormed == [k \in Keys |-> k % 2 = 1]

parse_filename_ok(ds) == WellFormed[get_dataset_key(ds)]

(***************************************************************************)
(* File contents: the data file's bytes, and the sidecar's text, a digest  *)
(* of 32 characters or something shorter.                                  *)
(***************************************************************************)
DataBytes == "test"
Md5Of(data) == IF data = "test" THEN "d8e8fca2" ELSE "00000000"
ShortSidecar == "d8e8"
Sidecars == {"d8e8fca2", "ffffffff", ShortSidecar}
SidecarLen(text) == IF text = ShortSidecar THEN 4 ELSE 32

ecreceive_base_url == "http://hei.ho/"

\* The threads MainThread.main starts besides the workers and the
\* checkpoint thread
Threads == {"watcher", "distributor"}

VARIABLES
    running,      \* the process is alive
    fs,           \* directory -> set of file names in it
    sidecar,      \* key -> text of its .md5 file (None before it is written)
    stateFile,    \* the checkpoint file on disk
    states,       \* Checkpoint._states of the checkpoint thread
    cpPc,         \* checkpoint thread: "unlock_all", "serving"
    mainPc,       \* main thread: "keys", "scan", "wait"
    events,       \* inotify events not yet read by the watcher
    submitQ,      \* ZMQ_JOB_SUBMIT_SOCKET: jobs sent to the distributor
    inbox,        \* ZMQ_WORKERS_SOCKET: jobs forwarded to each worker
    killswitch,   \* ZMQ_KILL_SOCKET: KILL messages not yet received
    pc,           \* worker -> its place in run_inner / process_file
    request,      \* worker -> the file name it is processing
    full_path,    \* worker -> process_file's full_path
    dataset,      \* worker -> its Dataset object (data_path, md5_path)
    tries,        \* worker -> retry_n's tries
    raised,       \* worker -> exception kinds caught by this retry_n call
    catalog,      \* Productstatus: "up", "unavailable", "no_product", "no_format"
    datainstance, \* DataInstance resources saved at the catalog
    kills,        \* times the process was killed from outside
    removals,     \* spool files taken away so far
    retry,        \* a call of retry_n on its own: its arguments and locals
    checked,      \* a Dataset object on its own: its files and its md5 fields
    parsed,       \* a call of parse_filename_timestamp on its own
    got,          \* a call of Checkpoint.get on its own: its key and result
    posting,      \* calls of find_or_create on their own: the collection and the callers
    named,        \* a Dataset object on its own: its file name and filename_components
    alive,        \* the watcher and distributor threads that are running
    exit_code     \* what MainThread.run returned when the process ended

vars == <<running, fs, sidecar, stateFile, states, cpPc, mainPc, events,
          submitQ, inbox, killswitch, pc, request, dataset, tries, raised,
          catalog, datainstance, kills, removals, full_path, retry, alive, exit_code,
          checked, parsed, got, posting, named>>

procVars == <<running, cpPc, mainPc, killswitch>>
diskVars == <<fs, sidecar>>
cpVars == <<stateFile, states>>
queueVars == <<events, submitQ, inbox>>
workerVars == <<pc, request, full_path, dataset, tries, raised>>
\* the objects and calls looked at on their own
unitVars == <<checked, parsed, got, posting, named>>

\* what the steps of the threads leave alone
envVars == <<kills, removals, retry, alive, exit_code, unitVars>>
catalogVars == <<catalog, datainstance>>

(***************************************************************************)
(* Helpers.                                                                *)
(***************************************************************************)
os_path_exists(path) == path.name \in fs[path.dir]

\* Dataset.complete: has_data_file() and has_md5_file()
complete(ds) == os_path_exists(ds.data_path) /\ os_path_exists(ds.md5_path)

\* The outcome of Dataset.valid(): read_md5sum, then calculate_md5sum, then
\* the comparison.  "ECReceiveException" is raised for a missing file and is
\* not caught by process_file; "InvalidDataException" for a short sidecar.
valid(ds) ==
    LET k == get_dataset_key(ds) IN
    IF ~os_path_exists(ds.md5_path) THEN "ECReceiveException"
    ELSE IF SidecarLen(sidecar[k]) # 32 THEN "InvalidDataException"
    ELSE IF ~os_path_exists(ds.data_path) THEN "ECReceiveException"
    ELSE IF sidecar[k] = Md5Of(DataBytes) THEN "True"
    ELSE "False"

\* (mutant) a rename that leaves the file where it was as well
os_rename_copying(files, path, destination) ==
    [files EXCEPT ![destination] = @ \cup {path.name}]

\* os.rename(path, destination_path) on the directory contents
os_rename(files, path, destination) ==
    LET removed == [files EXCEPT ![path.dir] = @ \ {path.name}]
    IN [removed EXCEPT ![destination] = @ \cup {path.name}]

\* retry_n's defaults, which process_file does not override
RetryWarning == 1
RetryError == 3
RetryGiveUp == 5

\* A Dataset object that was not made: no files, nothing read or calculated
NoChecked ==
    [data |-> "", md5file |-> "", md5_key |-> "None", md5_result |-> "None",
     rc |-> "None"]

\* A call of parse_filename_timestamp that was not made
NoParsed ==
    [now |-> [year |-> 0, month |-> 0], stamp |-> [month |-> 0, day |-> 0],
     at |-> "idle", year |-> 0]

\* A call of Checkpoint.get that was not made
NoGot == [key |-> 0, rc |-> 0]

\* Calls of find_or_create that were not made, on an empty collection
NoPosting ==
    [resources |-> <<>>,
     caller |-> [w \in Workers |-> [data |-> "", at |-> "idle", resource |-> 0]]]

\* Dataset.__init__: self.filename_components = {}
EmptyComponents == [c \in {} |-> 0]

\* The stamp '________' of a file name
Underscores == [month |-> 0, day |-> 0]

\* A Dataset object that was not made
NoNamed ==
    [filename |-> [start |-> Underscores, end |-> Underscores, version |-> ""],
     filename_components |-> EmptyComponents, at |-> "idle"]

\* The record of a retry_n call that was not made
NoRetry ==
    [give_up |-> 0, n_fail |-> 0, always |-> FALSE, exception |-> "MyProblem",
     count |-> 0, tries |-> 0, at |-> "idle", rc |-> "None"]

\* (mutant) only the transient failure is handed to retry_n
RetryExceptions_transient == {"ServiceUnavailableException"}

\* (mutant) the malformed file name is handed to retry_n as well
RetryExceptions_with_filename ==
    {"ServiceUnavailableException", "ECReceiveProductstatusException",
     "InvalidFilenameException"}

\* The exceptions process_file hands to retry_n
RetryExceptions == {"ServiceUnavailableException", "ECReceiveProductstatusException"}

\* A checkpoint request is answered by the checkpoint thread's loop
Serving == running /\ cpPc = "serving"

\* process_file returns (or run_inner has handled its exception): the worker
\* is back at socket.recv()
BackToRecv(w) ==
    /\ pc' = [pc EXCEPT ![w] = "recv"]
    /\ request' = [request EXCEPT ![w] = NoRequest]
    /\ full_path' = [full_path EXCEPT ![w] = NoPath]
    /\ dataset' = [dataset EXCEPT ![w] = NoDataset]
    /\ tries' = [tries EXCEPT ![w] = 0]
    /\ raised' = [raised EXCEPT ![w] = {}]

\* An exception run_inner does not catch ends the thread:
\* ZMQThread.run logs it and sends KILL to the main thread
ThreadDies(w) ==
    /\ pc' = [pc EXCEPT ![w] = "dead"]
    /\ request' = [request EXCEPT ![w] = NoRequest]
    /\ full_path' = [full_path EXCEPT ![w] = NoPath]
    /\ dataset' = [dataset EXCEPT ![w] = NoDataset]
    /\ tries' = [tries EXCEPT ![w] = 0]
    /\ raised' = [raised EXCEPT ![w] = {}]
    /\ killswitch' = killswitch + 1

\* (mutant) the TryAgainException is swallowed
Resubmit_dropped(w) == UNCHANGED submitQ

\* WorkerThread.run_inner's except TryAgainException: resubmit_socket.send
Resubmit(w) == submitQ' = Append(submitQ, request[w])

\* A mutating Checkpoint call: the new map, saved to the state file
Saved(s) ==
    /\ states' = s
    /\ stateFile' = save(s)

(***************************************************************************)
(* Worker threads: WorkerThread.run_inner and process_file, one action per *)
(* step that reads or writes something shared.                             *)
(***************************************************************************)
\* request = self.socket.recv()
WorkerRecv(w) ==
    /\ running /\ pc[w] = "recv" /\ inbox[w] # <<>>
    /\ request' = [request EXCEPT ![w] = Head(inbox[w])]
    /\ inbox' = [inbox EXCEPT ![w] = Tail(inbox[w])]
    /\ pc' = [pc EXCEPT ![w] = "check_destination"]
    /\ UNCHANGED <<procVars, diskVars, cpVars, events, submitQ, full_path, dataset,
                   tries, raised, catalogVars, envVars>>

\* the first round of the loop over [destination_path, spool_path]
CheckDestination(w) ==
    /\ running /\ pc[w] = "check_destination"
    /\ LET found == Path(destination_path, request[w]) IN
       IF os_path_exists(found)
       THEN /\ full_path' = [full_path EXCEPT ![w] = found]
            /\ dataset' = [dataset EXCEPT ![w] = Dataset(found)]
            /\ pc' = [pc EXCEPT ![w] = "complete"]
       ELSE /\ pc' = [pc EXCEPT ![w] = "check_spool"]
            /\ UNCHANGED <<full_path, dataset>>
    /\ UNCHANGED <<procVars, diskVars, cpVars, queueVars, request, tries, raised,
                   catalogVars, envVars>>

\* the second round; a file in neither directory ends process_file
CheckSpool(w) ==
    /\ running /\ pc[w] = "check_spool"
    /\ LET found == Path(spool_path, request[w]) IN
       IF os_path_exists(found)
       THEN /\ full_path' = [full_path EXCEPT ![w] = found]
            /\ dataset' = [dataset EXCEPT ![w] = Dataset(found)]
            /\ pc' = [pc EXCEPT ![w] = "complete"]
            /\ UNCHANGED <<request, tries, raised>>
       ELSE BackToRecv(w)
    /\ UNCHANGED <<procVars, diskVars, cpVars, queueVars, catalogVars, envVars>>

\* (mutant) an incomplete dataset is sent back to the queue
CheckComplete_resubmitting(w) ==
    /\ running /\ pc[w] = "complete"
    /\ IF complete(dataset[w])
       THEN /\ pc' = [pc EXCEPT ![w] = "lock"]
            /\ UNCHANGED <<request, full_path, dataset, tries, raised, submitQ>>
       ELSE /\ Resubmit(w)
            /\ BackToRecv(w)
    /\ UNCHANGED <<procVars, diskVars, cpVars, events, inbox, catalogVars, envVars>>

\* if not dataset.complete(): return False
CheckComplete(w) ==
    /\ running /\ pc[w] = "complete"
    /\ IF complete(dataset[w])
       THEN /\ pc' = [pc EXCEPT ![w] = "lock"]
            /\ UNCHANGED <<request, full_path, dataset, tries, raised>>
       ELSE BackToRecv(w)
    /\ UNCHANGED <<procVars, diskVars, cpVars, queueVars, catalogVars, envVars>>

\* (mutant) a refused lock request is followed by an unlock
CheckpointLock_releasing(w) ==
    /\ Serving /\ pc[w] = "lock"
    /\ LET key == get_dataset_key(dataset[w]) IN
       IF lock_rc(states, key)
       THEN /\ Saved(lock(states, key))
            /\ pc' = [pc EXCEPT ![w] = "add_exists"]
            /\ UNCHANGED <<request, full_path, dataset, tries, raised>>
       ELSE /\ Saved(unlock(states, key))
            /\ BackToRecv(w)
    /\ UNCHANGED <<procVars, diskVars, queueVars, catalogVars, envVars>>

\* if not self.checkpoint_lock(dataset): return False
CheckpointLock(w) ==
    /\ Serving /\ pc[w] = "lock"
    /\ LET key == get_dataset_key(dataset[w]) IN
       IF lock_rc(states, key)
       THEN /\ Saved(lock(states, key))
            /\ pc' = [pc EXCEPT ![w] = "add_exists"]
            /\ UNCHANGED <<request, full_path, dataset, tries, raised>>
       ELSE /\ UNCHANGED cpVars
            /\ BackToRecv(w)
    /\ UNCHANGED <<procVars, diskVars, queueVars, catalogVars, envVars>>

\* self.checkpoint_add(dataset, CHECKPOINT_DATASET_EXISTS)
CheckpointAddExists(w) ==
    /\ Serving /\ pc[w] = "add_exists"
    /\ Saved(add(states, get_dataset_key(dataset[w]), CHECKPOINT_DATASET_EXISTS))
    /\ pc' = [pc EXCEPT ![w] = "valid"]
    /\ UNCHANGED <<procVars, diskVars, queueVars, request, full_path, dataset, tries, raised,
                   catalogVars, envVars>>

\* (mutant) the result of valid() is not looked at
Validate_trusting(w) ==
    /\ running /\ pc[w] = "valid"
    /\ LET rc == valid(dataset[w]) IN
       IF rc = "ECReceiveException"
       THEN ThreadDies(w)
       ELSE /\ pc' = [pc EXCEPT ![w] = "get_moved"]
            /\ UNCHANGED <<request, full_path, dataset, tries, raised, killswitch>>
    /\ UNCHANGED <<running, cpPc, mainPc, diskVars, cpVars, queueVars,
                   catalogVars, envVars>>

\* dataset.valid() inside the try of lines 441-458
Validate(w) ==
    /\ running /\ pc[w] = "valid"
    /\ LET rc == valid(dataset[w]) IN
       IF rc = "ECReceiveException"
       THEN ThreadDies(w)
       ELSE /\ pc' = [pc EXCEPT ![w] = IF rc = "True" THEN "get_moved"
                                       ELSE "unlock_invalid"]
            /\ UNCHANGED <<request, full_path, dataset, tries, raised, killswitch>>
    /\ UNCHANGED <<running, cpPc, mainPc, diskVars, cpVars, queueVars,
                   catalogVars, envVars>>

\* self.checkpoint_unlock(dataset); return False
UnlockInvalid(w) ==
    /\ Serving /\ pc[w] = "unlock_invalid"
    /\ Saved(unlock(states, get_dataset_key(dataset[w])))
    /\ BackToRecv(w)
    /\ UNCHANGED <<procVars, diskVars, queueVars, catalogVars, envVars>>

\* (mutant) the move is made whatever the flags are
CheckpointGetMoved_always_moving(w) ==
    /\ Serving /\ pc[w] = "get_moved"
    /\ pc' = [pc EXCEPT ![w] = "move"]
    /\ UNCHANGED <<procVars, diskVars, cpVars, queueVars, request, full_path, dataset, tries,
                   raised, catalogVars, envVars>>

\* if not (self.checkpoint_get(dataset) & CHECKPOINT_DATASET_MOVED)
CheckpointGetMoved(w) ==
    /\ Serving /\ pc[w] = "get_moved"
    /\ LET mask == get(states, get_dataset_key(dataset[w])) IN
       pc' = [pc EXCEPT ![w] =
                IF BitAnd(mask, CHECKPOINT_DATASET_MOVED) = 0 THEN "move"
                ELSE "submit"]
    /\ UNCHANGED <<procVars, diskVars, cpVars, queueVars, request, full_path, dataset, tries,
                   raised, catalogVars, envVars>>

\* Dataset.move's completeness check; its ECReceiveException becomes the
\* TryAgainException of line 468, which run_inner answers by resubmitting
MoveCheck(w) ==
    /\ running /\ pc[w] = "move"
    /\ IF complete(dataset[w])
       THEN /\ pc' = [pc EXCEPT ![w] = "rename_data"]
            /\ UNCHANGED <<request, full_path, dataset, tries, raised, submitQ>>
       ELSE /\ Resubmit(w)
            /\ BackToRecv(w)
    /\ UNCHANGED <<procVars, diskVars, cpVars, events, inbox, catalogVars, envVars>>

\* os.rename of the member named; setattr(self, member, destination_path)
Rename(w, member, next) ==
    LET path == dataset[w][member]
        destination == Path(destination_path, path.name)
    IN
    IF os_path_exists(path)
    THEN /\ fs' = os_rename(fs, path, destination_path)
         /\ dataset' = [dataset EXCEPT ![w][member] = destination]
         /\ pc' = [pc EXCEPT ![w] = next]
         /\ UNCHANGED <<request, full_path, tries, raised, killswitch>>
    ELSE \* OSError: not an ECReceiveException, nobody catches it
         /\ ThreadDies(w)
         /\ UNCHANGED fs

RenameData(w) ==
    /\ running /\ pc[w] = "rename_data"
    /\ Rename(w, "data_path", "rename_md5")
    /\ UNCHANGED <<running, cpPc, mainPc, sidecar, cpVars, queueVars,
                   catalogVars, envVars>>

RenameMd5(w) ==
    /\ running /\ pc[w] = "rename_md5"
    /\ Rename(w, "md5_path", "add_moved")
    /\ UNCHANGED <<running, cpPc, mainPc, sidecar, cpVars, queueVars,
                   catalogVars, envVars>>

\* os.rename fails (destination directory missing or not writable): OSError
RenameFails(w) ==
    /\ running /\ pc[w] \in {"rename_data", "rename_md5"}
    /\ ThreadDies(w)
    /\ UNCHANGED <<running, cpPc, mainPc, diskVars, cpVars, queueVars,
                   catalogVars, envVars>>

\* self.checkpoint_add(dataset, CHECKPOINT_DATASET_MOVED)
CheckpointAddMoved(w) ==
    /\ Serving /\ pc[w] = "add_moved"
    /\ Saved(add(states, get_dataset_key(dataset[w]), CHECKPOINT_DATASET_MOVED))
    /\ pc' = [pc EXCEPT ![w] = "submit"]
    /\ UNCHANGED <<procVars, diskVars, queueVars, request, full_path, dataset, tries, raised,
                   catalogVars, envVars>>

(***************************************************************************)
(* The publish stage: retry_n(productstatus_submit, exceptions=...).       *)
(***************************************************************************)
\* (mutant) one failure more before giving up
gives_up_late(n, give_up) == give_up > 0 /\ n > give_up

\* (mutant) a give_up that is not positive counts as well
gives_up_unguarded(n, give_up) == n >= give_up

\* retry_n: if give_up > 0 and tries >= give_up
gives_up(n, give_up) == give_up > 0 /\ n >= give_up

\* (mutant) except Exception
except_matches_any(e, exceptions) == TRUE

\* retry_n: except exceptions as e
except_matches(e, exceptions) == e \in exceptions

\* (mutant) giving up goes on to the delete of the success path
retry_n_except_deleting(w, give_up) ==
    /\ tries' = [tries EXCEPT ![w] = @ + 1]
    /\ pc' = [pc EXCEPT ![w] =
                IF gives_up(tries[w] + 1, give_up) THEN "delete"
                ELSE "sleep"]

\* retry_n's except clause, for an exception listed in 'exceptions':
\* tries += 1; give up (return False) or sleep and call func again
retry_n_except(w, give_up) ==
    /\ tries' = [tries EXCEPT ![w] = @ + 1]
    /\ pc' = [pc EXCEPT ![w] =
                IF gives_up(tries[w] + 1, give_up) THEN "unlock_giveup"
                ELSE "sleep"]

\* func() raises e inside retry_n: caught when listed, else it leaves
\* retry_n and process_file, and run_inner catches only TryAgainException
Raise(w, e) ==
    IF except_matches(e, RetryExceptions)
    THEN /\ retry_n_except(w, RetryGiveUp)
         /\ raised' = [raised EXCEPT ![w] = @ \cup {e}]
         /\ UNCHANGED <<request, full_path, dataset, killswitch>>
    ELSE ThreadDies(w)

\* get_or_post_productinstance_resource and get_or_post_data_resource:
\* dataset.name() parses the file name, then the catalog is queried
SubmitResolve(w) ==
    /\ running /\ pc[w] = "submit"
    /\ IF ~parse_filename_ok(dataset[w])
       THEN Raise(w, "InvalidFilenameException")
       ELSE IF catalog = "unavailable"
       THEN Raise(w, "ServiceUnavailableException")
       ELSE IF catalog = "no_product"
       THEN Raise(w, "ECReceiveProductstatusException")
       ELSE /\ pc' = [pc EXCEPT ![w] = "save"]
            /\ UNCHANGED <<request, full_path, dataset, tries, raised, killswitch>>
    /\ UNCHANGED <<running, cpPc, mainPc, diskVars, cpVars, queueVars,
                   catalogVars, envVars>>

\* (mutant) the url is built from the name of the .md5 file
NewDataInstance_md5_url(ds) ==
    [url |-> <<ecreceive_base_url, ds.md5_path.name>>,
     hash |-> Md5Of(DataBytes),
     hash_type |-> "md5"]

\* post_datainstance_resource: the data format is looked up, the resource
\* is filled in and saved
NewDataInstance(ds) ==
    [url |-> <<ecreceive_base_url, data_filename(ds)>>,
     hash |-> Md5Of(DataBytes),
     hash_type |-> "md5"]

SubmitSave(w) ==
    /\ running /\ pc[w] = "save"
    /\ IF catalog = "unavailable"
       THEN /\ Raise(w, "ServiceUnavailableException")
            /\ UNCHANGED datainstance
       ELSE IF catalog = "no_format"
       THEN /\ Raise(w, "ECReceiveProductstatusException")
            /\ UNCHANGED datainstance
       ELSE /\ datainstance' = Append(datainstance, NewDataInstance(dataset[w]))
            /\ pc' = [pc EXCEPT ![w] = "delete"]
            /\ UNCHANGED <<request, full_path, dataset, tries, raised, killswitch>>
    /\ UNCHANGED <<running, cpPc, mainPc, diskVars, cpVars, queueVars,
                   catalog, envVars>>

\* self.checkpoint_delete(dataset); return True; retry_n returns it and
\* process_file returns
CheckpointDelete(w) ==
    /\ Serving /\ pc[w] = "delete"
    /\ LET key == get_dataset_key(dataset[w]) IN
       IF key \in DOMAIN states
       THEN Saved(delete(states, key))
       ELSE UNCHANGED cpVars
    /\ BackToRecv(w)
    /\ UNCHANGED <<procVars, diskVars, queueVars, catalogVars, envVars>>

\* time.sleep(interval), then the next round of retry_n's loop
Sleep(w) ==
    /\ running /\ pc[w] = "sleep"
    /\ pc' = [pc EXCEPT ![w] = "submit"]
    /\ UNCHANGED <<procVars, diskVars, cpVars, queueVars, request, full_path, dataset, tries,
                   raised, catalogVars, envVars>>

\* rc is False: self.checkpoint_unlock(dataset); raise TryAgainException,
\* which run_inner answers by resubmitting the request
UnlockGiveUp(w) ==
    /\ Serving /\ pc[w] = "unlock_giveup"
    /\ Saved(unlock(states, get_dataset_key(dataset[w])))
    /\ Resubmit(w)
    /\ BackToRecv(w)
    /\ UNCHANGED <<procVars, diskVars, events, inbox, catalogVars, envVars>>

(***************************************************************************)
(* The checkpoint thread, the main thread, the watcher, the distributor.   *)
(***************************************************************************)
\* CheckpointThread.run_inner, before its loop: self.checkpoint.unlock_all()
\* (unlock saves; with no key nothing is written)
CheckpointUnlockAll ==
    /\ running /\ cpPc = "unlock_all"
    /\ states' = unlock_all(stateFile)
    /\ stateFile' = IF DOMAIN load(stateFile) = {} THEN stateFile
                    ELSE save(unlock_all(stateFile))
    /\ cpPc' = "serving"
    /\ UNCHANGED <<running, mainPc, killswitch, diskVars, queueVars, workerVars,
                   catalogVars, envVars>>

\* Every order in which the members of S can be listed
RECURSIVE Orders(_)
Orders(S) ==
    IF S = {} THEN {<<>>}
    ELSE UNION {{<<x>> \o t : t \in Orders(S \ {x})} : x \in S}

\* MainThread.process_incomplete_checkpoints: one job per checkpoint key
ProcessIncompleteCheckpoints ==
    /\ Serving /\ mainPc = "keys"
    /\ \E checkpointed_files \in Orders({<<k, DataSuffix>> : k \in keys(states)}) :
          submitQ' = submitQ \o checkpointed_files
    /\ mainPc' = "scan"
    /\ UNCHANGED <<running, cpPc, killswitch, diskVars, cpVars, events, inbox,
                   workerVars, catalogVars, envVars>>

\* MainThread.process_directory: one job per *.md5 file of the spool directory
ProcessDirectory ==
    /\ running /\ mainPc = "scan"
    /\ \E files \in Orders({f \in fs[spool_path] : f[2] = Md5Suffix}) :
          submitQ' = submitQ \o files
    /\ mainPc' = "wait"
    /\ UNCHANGED <<running, cpPc, killswitch, diskVars, cpVars, events, inbox,
                   workerVars, catalogVars, envVars>>

\* What event_gen yields when no event is waiting: None
NoEvent == [attribs |-> {}, filename |-> NoRequest]

\* (mutant) a watcher that does not look at the file name
ProcessInotifyEvent_any_name ==
    /\ running /\ "watcher" \in alive /\ events # <<>>
    /\ LET event == Head(events) IN
       IF event = NoEvent THEN UNCHANGED submitQ
       ELSE IF "IN_CLOSE_WRITE" \notin event.attribs THEN UNCHANGED submitQ
       ELSE submitQ' = Append(submitQ, event.filename)
    /\ events' = Tail(events)
    /\ UNCHANGED <<procVars, diskVars, cpVars, inbox, workerVars, catalogVars,
                   envVars>>

\* DirectoryWatcherThread.process_inotify_event on the next event
ProcessInotifyEvent ==
    /\ running /\ "watcher" \in alive /\ events # <<>>
    /\ LET event == Head(events) IN
       IF event = NoEvent THEN UNCHANGED submitQ
       ELSE IF "IN_CLOSE_WRITE" \notin event.attribs THEN UNCHANGED submitQ
       ELSE IF event.filename[2] # Md5Suffix THEN UNCHANGED submitQ
       ELSE submitQ' = Append(submitQ, event.filename)
    /\ events' = Tail(events)
    /\ UNCHANGED <<procVars, diskVars, cpVars, inbox, workerVars, catalogVars,
                   envVars>>

\* (mutant) a distributor that publishes each job to every worker
Distribute_to_all(w) ==
    /\ running /\ "distributor" \in alive /\ submitQ # <<>>
    /\ inbox' = [v \in Workers |-> Append(inbox[v], Head(submitQ))]
    /\ submitQ' = Tail(submitQ)
    /\ UNCHANGED <<procVars, diskVars, cpVars, events, workerVars, catalogVars,
                   envVars>>

\* DistributionThread: zmq.proxy forwards the next job to one worker's pipe
Distribute(w) ==
    /\ running /\ "distributor" \in alive /\ submitQ # <<>>
    /\ inbox' = [inbox EXCEPT ![w] = Append(@, Head(submitQ))]
    /\ submitQ' = Tail(submitQ)
    /\ UNCHANGED <<procVars, diskVars, cpVars, events, workerVars, catalogVars,
                   envVars>>

(***************************************************************************)
(* The process as a whole.                                                 *)
(***************************************************************************)
\* What is lost when the process ends: threads, sockets, the inotify queue
Volatile ==
    /\ cpPc' = "unlock_all"
    /\ mainPc' = "keys"
    /\ killswitch' = 0
    /\ events' = <<>>
    /\ submitQ' = <<>>
    /\ inbox' = [w \in Workers |-> <<>>]
    /\ pc' = [w \in Workers |-> "recv"]
    /\ request' = [w \in Workers |-> NoRequest]
    /\ full_path' = [w \in Workers |-> NoPath]
    /\ dataset' = [w \in Workers |-> NoDataset]
    /\ tries' = [w \in Workers |-> 0]
    /\ raised' = [w \in Workers |-> {}]
    /\ states' = EmptyStates
    /\ alive' = Threads

\* MainThread.main's killswitch.recv() returns and main returns nothing;
\* run() joins the daemon threads with THREAD_GRACE = 0, returns what main
\* returned, and the process ends
Shutdown ==
    /\ running /\ mainPc = "wait" /\ killswitch > 0
    /\ running' = FALSE
    /\ exit_code' = "None"
    /\ Volatile
    /\ UNCHANGED <<diskVars, stateFile, catalogVars, kills, removals, retry,
                   unitVars>>

\* The process is killed from outside, or the machine goes down
ProcessKilled ==
    /\ running
    /\ kills < MaxKills
    /\ kills' = kills + 1
    /\ running' = FALSE
    /\ exit_code' = "unset"
    /\ Volatile
    /\ UNCHANGED <<diskVars, stateFile, catalogVars, removals, retry,
                   unitVars>>

\* The daemon is started again: MainThread.main starts the threads;
\* CheckpointThread.__init__ loads the state file
Restart ==
    /\ ~running
    /\ running' = TRUE
    /\ states' = load(stateFile)
    /\ exit_code' = "unset"
    /\ UNCHANGED <<cpPc, mainPc, killswitch, diskVars, stateFile, queueVars,
                   workerVars, catalogVars, kills, removals, retry, alive,
                   unitVars>>

(***************************************************************************)
(* The environment.                                                        *)
(***************************************************************************)
Event(filename) == [attribs |-> {"IN_CLOSE_WRITE"}, filename |-> filename]

Notify(filename) ==
    events' = IF running THEN Append(events, Event(filename)) ELSE events

\* The datasets the sender has begun to write
Begun == {k \in Keys : sidecar[k] # None
                       \/ \E d \in Directories : <<k, DataSuffix>> \in fs[d]}

\* The sender writes a data file into the spool directory
SenderWritesData(k) ==
    /\ k \notin Begun
    /\ Cardinality(Begun) < MaxDatasets
    /\ fs' = [fs EXCEPT ![spool_path] = @ \cup {<<k, DataSuffix>>}]
    /\ Notify(<<k, DataSuffix>>)
    /\ UNCHANGED <<procVars, sidecar, cpVars, submitQ, inbox, workerVars,
                   catalogVars, envVars>>

\* ... and, last, its .md5 file
SenderWritesMd5(k, text) ==
    /\ sidecar[k] = None
    /\ <<k, DataSuffix>> \in fs[spool_path]
    /\ sidecar' = [sidecar EXCEPT ![k] = text]
    /\ fs' = [fs EXCEPT ![spool_path] = @ \cup {<<k, Md5Suffix>>}]
    /\ Notify(<<k, Md5Suffix>>)
    /\ UNCHANGED <<procVars, cpVars, submitQ, inbox, workerVars, catalogVars,
                   envVars>>

\* A file of the spool directory is taken away (by the sender, by an operator)
SpoolFileRemoved(f) ==
    /\ removals < MaxRemovals
    /\ f \in fs[spool_path]
    /\ fs' = [fs EXCEPT ![spool_path] = @ \ {f}]
    /\ removals' = removals + 1
    /\ UNCHANGED <<procVars, sidecar, cpVars, queueVars, workerVars, catalogVars,
                   kills, retry, alive, exit_code, unitVars>>

CatalogModes == {"up", "unavailable", "no_product", "no_format"}

\* The catalog goes away, loses or regains what it knows, or comes back
CatalogChanges(mode) ==
    /\ mode # catalog
    /\ catalog' = mode
    /\ UNCHANGED <<procVars, diskVars, cpVars, queueVars, workerVars,
                   datainstance, envVars>>

(***************************************************************************)
(* Specification.                                                          *)
(***************************************************************************)
Init ==
    /\ running = TRUE
    /\ fs = [d \in Directories |-> {}]
    /\ sidecar = [k \in Keys |-> None]
    /\ stateFile = Missing
    /\ states = EmptyStates
    /\ cpPc = "unlock_all"
    /\ mainPc = "keys"
    /\ events = <<>>
    /\ submitQ = <<>>
    /\ inbox = [w \in Workers |-> <<>>]
    /\ killswitch = 0
    /\ pc = [w \in Workers |-> "recv"]
    /\ request = [w \in Workers |-> NoRequest]
    /\ full_path = [w \in Workers |-> NoPath]
    /\ dataset = [w \in Workers |-> NoDataset]
    /\ tries = [w \in Workers |-> 0]
    /\ raised = [w \in Workers |-> {}]
    /\ catalog = "up"
    /\ datainstance = <<>>
    /\ kills = 0
    /\ removals = 0
    /\ alive = Threads
    /\ exit_code = "unset"
    /\ checked = NoChecked
    /\ parsed = NoParsed
    /\ got = NoGot
    /\ posting = NoPosting
    /\ named = NoNamed
    /\ retry = NoRetry

WorkerStep(w) ==
    \/ WorkerRecv(w)
    \/ CheckDestination(w)
    \/ CheckSpool(w)
    \/ CheckComplete(w)
    \/ CheckpointLock(w)
    \/ CheckpointAddExists(w)
    \/ Validate(w)
    \/ UnlockInvalid(w)
    \/ CheckpointGetMoved(w)
    \/ MoveCheck(w)
    \/ RenameData(w)
    \/ RenameMd5(w)
    \/ CheckpointAddMoved(w)
    \/ SubmitResolve(w)
    \/ SubmitSave(w)
    \/ CheckpointDelete(w)
    \/ Sleep(w)
    \/ UnlockGiveUp(w)

Program ==
    \/ \E w \in Workers : WorkerStep(w)
    \/ CheckpointUnlockAll
    \/ ProcessIncompleteCheckpoints
    \/ ProcessDirectory
    \/ ProcessInotifyEvent
    \/ \E w \in Workers : Distribute(w)
    \/ Shutdown

Environment ==
    \/ \E k \in Keys : SenderWritesData(k)
    \/ \E k \in Keys, text \in Sidecars : SenderWritesMd5(k, text)
    \/ \E mode \in CatalogModes : CatalogChanges(mode)

Next ==
    \/ Program
    \/ Environment
    \/ \E w \in Workers : RenameFails(w)
    \/ \E f \in FileNames : SpoolFileRemoved(f)
    \/ ProcessKilled
    \/ Restart

Spec == Init /\ [][Next]_vars

(***************************************************************************)
(* Further specifications.                                                 *)
(***************************************************************************)
Sender ==
    \/ \E k \in Keys : SenderWritesData(k)
    \/ \E k \in Keys, text \in Sidecars : SenderWritesMd5(k, text)

\* The catalog comes back and stays
CatalogRecovers ==
    /\ catalog = "unavailable"
    /\ catalog' = "up"
    /\ UNCHANGED <<procVars, diskVars, cpVars, queueVars, workerVars,
                   datainstance, envVars>>

\* What the scheduling of the threads guarantees: every thread that can take
\* a step eventually takes one
ThreadsFair ==
    /\ \A w \in Workers : WF_vars(WorkerStep(w))
    /\ WF_vars(CheckpointUnlockAll)
    /\ WF_vars(ProcessIncompleteCheckpoints)
    /\ WF_vars(ProcessDirectory)
    /\ WF_vars(ProcessInotifyEvent)
    /\ WF_vars(\E w \in Workers : Distribute(w))
    /\ WF_vars(Shutdown)

\* One run of the process, from its start to its end
NextRun ==
    \/ Program
    \/ Environment

SpecRun == Init /\ [][NextRun]_vars

\* One run during which the catalog is away for a while and then stays
InitOutage ==
    /\ running = TRUE
    /\ fs = [d \in Directories |-> {}]
    /\ sidecar = [k \in Keys |-> None]
    /\ stateFile = Missing
    /\ states = EmptyStates
    /\ cpPc = "unlock_all"
    /\ mainPc = "keys"
    /\ events = <<>>
    /\ submitQ = <<>>
    /\ inbox = [w \in Workers |-> <<>>]
    /\ killswitch = 0
    /\ pc = [w \in Workers |-> "recv"]
    /\ request = [w \in Workers |-> NoRequest]
    /\ full_path = [w \in Workers |-> NoPath]
    /\ dataset = [w \in Workers |-> NoDataset]
    /\ tries = [w \in Workers |-> 0]
    /\ raised = [w \in Workers |-> {}]
    /\ catalog \in {"up", "unavailable"}
    /\ datainstance = <<>>
    /\ kills = 0
    /\ removals = 0
    /\ alive = Threads
    /\ exit_code = "unset"
    /\ checked = NoChecked
    /\ parsed = NoParsed
    /\ got = NoGot
    /\ posting = NoPosting
    /\ named = NoNamed
    /\ retry = NoRetry

NextOutage ==
    \/ Program
    \/ Sender
    \/ CatalogRecovers

SpecOutage ==
    InitOutage /\ [][NextOutage]_vars /\ ThreadsFair /\ WF_vars(CatalogRecovers)

\* The process is killed and started again; the catalog is there or comes
\* back and stays
NextCrash ==
    \/ Program
    \/ Sender
    \/ CatalogRecovers
    \/ ProcessKilled
    \/ Restart

SpecCrash ==
    /\ InitOutage /\ [][NextCrash]_vars
    /\ ThreadsFair /\ WF_vars(CatalogRecovers) /\ WF_vars(Restart)

(***************************************************************************)
(* Vocabulary of the properties.                                           *)
(***************************************************************************)
\* The stages of process_file between a granted lock and the unlock or
\* delete that gives it back
LockedStages ==
    {"add_exists", "valid", "unlock_invalid", "get_moved", "move", "rename_data",
     "rename_md5", "add_moved", "submit", "save", "sleep", "delete",
     "unlock_giveup"}

PublishStages == {"submit", "save", "sleep"}

Holds(w, k) ==
    /\ pc[w] \in LockedStages
    /\ get_dataset_key(dataset[w]) = k

HasFlag(s, k, flag) == BitAnd(get(s, k), flag) # 0

\* The DataInstance resources that point to dataset k
PublishedIn(resources, k) ==
    {i \in 1..Len(resources) :
        resources[i].url = <<ecreceive_base_url, <<k, DataSuffix>>>>}

Published(k) == PublishedIn(datainstance, k)

InDirectory(k, dir) ==
    /\ <<k, DataSuffix>> \in fs[dir]
    /\ <<k, Md5Suffix>> \in fs[dir]

Good(k) == sidecar[k] = Md5Of(DataBytes) /\ WellFormed[k]

\* A job for dataset k is on its way or being processed
JobFor(k) ==
    \/ \E i \in 1..Len(submitQ) : submitQ[i][1] = k
    \/ \E w \in Workers : \E i \in 1..Len(inbox[w]) : inbox[w][i][1] = k
    \/ \E w \in Workers : pc[w] \notin {"recv", "dead"} /\ request[w][1] = k

\* DONE: published, both files in the destination directory only, no entry
Done(k) ==
    /\ Published(k) # {}
    /\ InDirectory(k, destination_path)
    /\ <<k, DataSuffix>> \notin fs[spool_path]
    /\ <<k, Md5Suffix>> \notin fs[spool_path]
    /\ k \notin keys(load(stateFile))

(***************************************************************************)
(* C1.  Mutual exclusion per dataset: for every key, at most one worker is *)
(* between a granted lock(k) and the unlock(k) or delete(k) that ends it,  *)
(* and while one is, LOCKED is set; whether the jobs name the data file or *)
(* the .md5 file.                                                          *)
(***************************************************************************)
C1_MutualExclusion ==
    \A k \in Keys :
        /\ Cardinality({w \in Workers : Holds(w, k)}) <= 1
        /\ (\E w \in Workers : Holds(w, k))
              => HasFlag(states, k, CHECKPOINT_DATASET_LOCKED)

\* One worker holds the lock through a job naming the data file while the
\* other asks for it through a job naming the .md5 file
C1_Witness ==
    \E k \in Keys, w1, w2 \in Workers :
        /\ Holds(w1, k) /\ request[w1] = <<k, DataSuffix>>
        /\ pc[w2] = "lock" /\ request[w2] = <<k, Md5Suffix>>
        /\ get_dataset_key(dataset[w2]) = k

(***************************************************************************)
(* C2.  Idempotent completion: in one run of the process, whatever jobs    *)
(* arrive for a dataset, at most one DataInstance is saved for it.         *)
(***************************************************************************)
C2_PublishedAtMostOnce ==
    \A k \in Keys : Cardinality(Published(k)) <= 1

(***************************************************************************)
(* C3.  No data loss under a catalog outage: a job for a complete, valid,  *)
(* well-named dataset leads to the dataset being published and its         *)
(* checkpoint entry deleted, when the catalog comes back and stays.        *)
(***************************************************************************)
C3_EventuallyPublished ==
    \A k \in Keys :
        (JobFor(k) /\ Good(k) /\ Published(k) = {}
            /\ (InDirectory(k, spool_path) \/ InDirectory(k, destination_path)))
        ~> (Published(k) # {} /\ k \notin keys(load(stateFile)))

(***************************************************************************)
(* C4.  Crash recovery: when the process is killed while a worker holds    *)
(* the lock of a good dataset and is started again, the dataset reaches    *)
(* DONE.                                                                   *)
(***************************************************************************)
C4_RecoversToDone ==
    \A k \in Keys :
        (~running /\ kills > 0 /\ Good(k)
            /\ HasFlag(load(stateFile), k, CHECKPOINT_DATASET_LOCKED))
        ~> Done(k)

(***************************************************************************)
(* C5.  End-to-end postcondition: when process_file, run on a complete     *)
(* dataset found in the spool directory whose .md5 file holds the MD5 of   *)
(* the data and whose name is well-formed, returns from its last step with *)
(* the catalog available, the checkpoint has no entry for the key, both    *)
(* files are in the destination directory only, and exactly one            *)
(* DataInstance has url = base URL + data file name.                       *)
(***************************************************************************)
Returns(w, stage) == pc[w] = stage /\ pc'[w] = "recv" /\ running'

C5_Postcondition ==
    [][\A w \in Workers :
        (Returns(w, "delete") /\ full_path[w].dir = spool_path)
        => LET k == get_dataset_key(dataset[w]) IN
           /\ Good(k)
           /\ k \notin keys(states')
           /\ k \notin keys(load(stateFile'))
           /\ <<k, DataSuffix>> \in fs'[destination_path]
           /\ <<k, Md5Suffix>> \in fs'[destination_path]
           /\ <<k, DataSuffix>> \notin fs'[spool_path]
           /\ <<k, Md5Suffix>> \notin fs'[spool_path]
           /\ Cardinality(PublishedIn(datainstance', k)) = 1
           /\ datainstance'[Len(datainstance')] =
                 [url |-> <<ecreceive_base_url, <<k, DataSuffix>>>>,
                  hash |-> sidecar[k], hash_type |-> "md5"]]_vars

\* The attempt that began in the spool directory has published and is about
\* to delete the entry
C5_Witness ==
    \E w \in Workers :
        /\ Serving /\ pc[w] = "delete" /\ full_path[w].dir = spool_path
        /\ Good(get_dataset_key(dataset[w]))
        /\ Published(get_dataset_key(dataset[w])) # {}

(***************************************************************************)
(* C6.  The publish stage retries indefinitely: while the catalog reports  *)
(* service-unavailable a worker in the publish stage never leaves it to    *)
(* unlock the key and raise TryAgainException.                             *)
(***************************************************************************)
C6_RetriesIndefinitely ==
    [][\A w \in Workers :
        (pc[w] \in PublishStages /\ catalog = "unavailable")
        => pc'[w] # "unlock_giveup"]_vars

(***************************************************************************)
(* C7.  Resubmission discipline: whenever a worker pushes its job back to  *)
(* the distributor, after a failed move or a failed publish, the key is    *)
(* not LOCKED.                                                             *)
(***************************************************************************)
Resubmits(w) ==
    /\ pc[w] \in LockedStages /\ pc'[w] = "recv" /\ running'
    /\ submitQ' = Append(submitQ, request[w])

C7_UnlockedAtResubmission ==
    [][\A w \in Workers :
        Resubmits(w)
        => ~HasFlag(states', get_dataset_key(dataset[w]),
                    CHECKPOINT_DATASET_LOCKED)]_vars

(***************************************************************************)
(* C8.  Move failures are retryable: when the move fails (the dataset is   *)
(* no longer complete, or a rename fails) the job is resubmitted and the   *)
(* worker thread goes on.                                                  *)
(***************************************************************************)
MoveStages == {"move", "rename_data", "rename_md5"}

MoveFailed(w) ==
    /\ pc[w] \in MoveStages /\ running'
    /\ pc'[w] \notin MoveStages \cup {"add_moved"}

C8_MoveFailureResubmits ==
    [][\A w \in Workers :
        MoveFailed(w)
        => /\ pc'[w] = "recv"
           /\ submitQ' = Append(submitQ, request[w])]_vars

(***************************************************************************)
(* C9.  Integrity failure: when the computed checksum differs from the     *)
(* .md5 file or the .md5 file is shorter than 32 bytes, process_file       *)
(* unlocks the key and returns; the entry stays with EXISTS set and LOCKED *)
(* clear, no file is moved, nothing is published, nothing is resubmitted.  *)
(***************************************************************************)
C9_IntegrityFailure ==
    [][\A w \in Workers :
        LET k == get_dataset_key(dataset[w]) IN
        /\ (pc[w] = "valid" /\ pc'[w] # "valid" /\ running'
               /\ valid(dataset[w]) \in {"False", "InvalidDataException"})
           => (pc'[w] = "unlock_invalid" /\ UNCHANGED <<fs, datainstance, states>>)
        /\ pc'[w] = "unlock_invalid" => pc[w] \in {"valid", "unlock_invalid"}
        /\ Returns(w, "unlock_invalid")
           => /\ HasFlag(states', k, CHECKPOINT_DATASET_EXISTS)
              /\ ~HasFlag(states', k, CHECKPOINT_DATASET_LOCKED)
              /\ load(stateFile') = states'
              /\ dataset[w] = Dataset(full_path[w])
              /\ UNCHANGED <<fs, datainstance, submitQ>>
              /\ valid(dataset[w]) # "True"]_vars

\* A worker has found the checksums different and is about to unlock
C9_Witness ==
    \E w \in Workers :
        /\ Serving /\ pc[w] = "unlock_invalid"
        /\ valid(dataset[w]) = "False"
        /\ HasFlag(states, get_dataset_key(dataset[w]), CHECKPOINT_DATASET_LOCKED)

(***************************************************************************)
(* C10. A catalog schema error (the catalog lacks the data format or the   *)
(* product) is handled by retry_n like a transient one: it counts as a     *)
(* failed attempt, and the publish sequence is run again after a sleep     *)
(* until the attempt numbered RetryGiveUp has failed, when the publish     *)
(* stage ends.                                                             *)
(***************************************************************************)
SchemaError(w) ==
    \/ pc[w] = "submit" /\ parse_filename_ok(dataset[w]) /\ catalog = "no_product"
    \/ pc[w] = "save" /\ catalog = "no_format"

SchemaErrorRaised(w) == SchemaError(w) /\ pc'[w] # pc[w] /\ running'

LockGranted(k) ==
    \E w \in Workers :
        /\ pc[w] = "lock" /\ pc'[w] = "add_exists"
        /\ get_dataset_key(dataset[w]) = k
        /\ states' = lock(states, k)

C11_SchemaErrorKeepsEntry ==
    [][/\ \A w \in Workers :
            (Returns(w, "unlock_giveup")
                /\ "ECReceiveProductstatusException" \in raised[w])
            => LET k == get_dataset_key(dataset[w]) IN
               /\ submitQ' = Append(submitQ, request[w])
               /\ get(states', k) = BitOr(CHECKPOINT_DATASET_EXISTS,
                                          CHECKPOINT_DATASET_MOVED)
               /\ load(stateFile') = states'
       /\ \A k \in Keys :
            (running /\ running' /\ cpPc = "serving"
                /\ get(states, k) = BitOr(CHECKPOINT_DATASET_EXISTS,
                                          CHECKPOINT_DATASET_MOVED))
            => (get(states', k) = get(states, k) \/ LockGranted(k))]_vars

\* Five schema errors in a row: the worker is about to unlock and resubmit
C11_Witness ==
    \E w \in Workers :
        /\ Serving /\ pc[w] = "unlock_giveup"
        /\ raised[w] = {"ECReceiveProductstatusException"}

(***************************************************************************)
(* C12. A dataset with a malformed file name is not retried: the first     *)
(* parse raises InvalidFilenameException out of retry_n and process_file,  *)
(* the publish sequence is not run again, the job is not resubmitted,      *)
(* nothing is published, and the entry with EXISTS is not deleted.         *)
(***************************************************************************)
Malformed(w) == ~WellFormed[get_dataset_key(dataset[w])]

C12_MalformedNotRetried ==
    [][\A w \in Workers :
        /\ (pc[w] = "submit" /\ Malformed(w) /\ pc'[w] # pc[w] /\ running')
           => LET k == get_dataset_key(dataset[w]) IN
              /\ tries[w] = 0 /\ raised[w] = {}
              /\ pc'[w] = "dead"
              /\ UNCHANGED <<submitQ, datainstance, states, stateFile>>
              /\ HasFlag(states', k, CHECKPOINT_DATASET_EXISTS)
              /\ PublishedIn(datainstance', k) = {}
        /\ (pc[w] = "submit" /\ Malformed(w))
           => pc'[w] \notin {"sleep", "save", "unlock_giveup", "delete"}]_vars

\* The publish sequence is about to parse a malformed name
C12_Witness ==
    \E w \in Workers : running /\ pc[w] = "submit" /\ Malformed(w)

(***************************************************************************)
(* C13. lock is a compare-and-set: on a key that is LOCKED it returns      *)
(* False and changes nothing, otherwise it sets LOCKED and returns True;   *)
(* LOCKED is cleared only by unlock, unlock_all or delete, so between two  *)
(* releases one lock call is granted, also when two workers ask at once.   *)
(***************************************************************************)
Locked(s, k) == HasFlag(s, k, CHECKPOINT_DATASET_LOCKED)

Released(k) ==
    \/ cpPc = "unlock_all" /\ cpPc' = "serving"
    \/ \E w \in Workers :
          /\ Holds(w, k) /\ pc'[w] = "recv"
          /\ pc[w] \in {"unlock_invalid", "unlock_giveup", "delete"}

C13_LockCompareAndSet ==
    [][/\ \A w \in Workers :
            (pc[w] = "lock" /\ pc'[w] # "lock" /\ running')
            => LET k == get_dataset_key(dataset[w]) IN
               IF Locked(states, k)
               THEN /\ ~lock_rc(states, k)
                    /\ pc'[w] = "recv"
                    /\ UNCHANGED <<states, stateFile>>
               ELSE /\ lock_rc(states, k)
                    /\ pc'[w] = "add_exists"
                    /\ get(states', k) =
                          BitOr(get(states, k), CHECKPOINT_DATASET_LOCKED)
                    /\ \A j \in Keys \ {k} : get(states', j) = get(states, j)
                    /\ load(stateFile') = states'
       /\ \A k \in Keys :
            (running /\ running' /\ Locked(states, k) /\ ~Locked(states', k))
            => Released(k)]_vars

\* Two workers asked for the same key: one was granted the lock, the other
\* has not been answered yet
C13_Witness ==
    \E k \in Keys, w1, w2 \in Workers :
        /\ Serving /\ Locked(states, k)
        /\ pc[w1] = "add_exists" /\ get_dataset_key(dataset[w1]) = k
        /\ pc[w2] = "lock" /\ get_dataset_key(dataset[w2]) = k

(***************************************************************************)
(* The Checkpoint class on its own: an object constructed on a state file  *)
(* and called in any order.  states and stateFile are its map and its      *)
(* file; cpPc is "new" before the constructor, "ready" after it, and       *)
(* "ValueError" when the constructor raised.                               *)
(***************************************************************************)
Flags ==
    {CHECKPOINT_DATASET_EXISTS, CHECKPOINT_DATASET_MOVED, CHECKPOINT_DATASET_LOCKED}

\* The keys the object is called with: the datasets' and one more
CheckpointKeys == Keys \cup {NumKeys + 1}

EmptyFile == [exists |-> TRUE, ws |-> FALSE, doc |-> <<>>]
WhitespaceFile == [exists |-> TRUE, ws |-> TRUE, doc |-> <<>>]

\* no file, '', ' ', '{}', '{ "a" : 1, "b" : 2 }' and a file left by a run
\* that was killed holding a lock
InitialFiles ==
    {Missing, EmptyFile, WhitespaceFile,
     [exists |-> TRUE, ws |-> FALSE, doc |-> << <<>> >>],
     [exists |-> TRUE, ws |-> TRUE, doc |-> << <<(<<1, 1>>), (<<2, 2>>)>> >>],
     [exists |-> TRUE, ws |-> FALSE, doc |-> << <<(<<1, 5>>)>> >>]}

daemonVars ==
    <<running, mainPc, killswitch, diskVars, queueVars, workerVars,
      catalogVars, envVars>>

\* Checkpoint.__init__: self._states = {}; self.load()
Checkpoint_init ==
    /\ cpPc = "new"
    /\ IF load_raises(stateFile)
       THEN /\ cpPc' = "ValueError"
            /\ states' = EmptyStates
       ELSE /\ cpPc' = "ready"
            /\ states' = load(stateFile)
    /\ UNCHANGED <<stateFile, daemonVars>>

Checkpoint_add(key, state) ==
    /\ cpPc = "ready"
    /\ Saved(add(states, key, state))
    /\ UNCHANGED <<cpPc, daemonVars>>

Checkpoint_subtract(key, state) ==
    /\ cpPc = "ready"
    /\ Saved(subtract(states, key, state))
    /\ UNCHANGED <<cpPc, daemonVars>>

Checkpoint_lock(key) ==
    /\ cpPc = "ready"
    /\ IF lock_rc(states, key)
       THEN Saved(lock(states, key))
       ELSE UNCHANGED cpVars
    /\ UNCHANGED <<cpPc, daemonVars>>

Checkpoint_unlock(key) ==
    /\ cpPc = "ready"
    /\ Saved(unlock(states, key))
    /\ UNCHANGED <<cpPc, daemonVars>>

Checkpoint_unlock_all ==
    /\ cpPc = "ready"
    /\ states' = unlock_all(stateFile)
    /\ stateFile' = IF DOMAIN load(stateFile) = {} THEN stateFile
                    ELSE save(unlock_all(stateFile))
    /\ UNCHANGED <<cpPc, daemonVars>>

Checkpoint_delete(key) ==
    /\ cpPc = "ready"
    /\ IF key \in DOMAIN states
       THEN Saved(delete(states, key))
       ELSE UNCHANGED cpVars
    /\ UNCHANGED <<cpPc, daemonVars>>

InitCheckpoint ==
    /\ running = FALSE
    /\ fs = [d \in Directories |-> {}]
    /\ sidecar = [k \in Keys |-> None]
    /\ stateFile \in InitialFiles
    /\ states = EmptyStates
    /\ cpPc = "new"
    /\ mainPc = "keys"
    /\ events = <<>>
    /\ submitQ = <<>>
    /\ inbox = [w \in Workers |-> <<>>]
    /\ killswitch = 0
    /\ pc = [w \in Workers |-> "recv"]
    /\ request = [w \in Workers |-> NoRequest]
    /\ full_path = [w \in Workers |-> NoPath]
    /\ dataset = [w \in Workers |-> NoDataset]
    /\ tries = [w \in Workers |-> 0]
    /\ raised = [w \in Workers |-> {}]
    /\ catalog = "up"
    /\ datainstance = <<>>
    /\ kills = 0
    /\ removals = 0
    /\ alive = Threads
    /\ exit_code = "unset"
    /\ checked = NoChecked
    /\ parsed = NoParsed
    /\ got = NoGot
    /\ posting = NoPosting
    /\ named = NoNamed
    /\ retry = NoRetry

NextCheckpoint ==
    \/ Checkpoint_init
    \/ \E key \in CheckpointKeys, state \in Flags : Checkpoint_add(key, state)
    \/ \E key \in CheckpointKeys, state \in Flags : Checkpoint_subtract(key, state)
    \/ \E key \in CheckpointKeys : Checkpoint_lock(key)
    \/ \E key \in CheckpointKeys : Checkpoint_unlock(key)
    \/ Checkpoint_unlock_all
    \/ \E key \in CheckpointKeys : Checkpoint_delete(key)

SpecCheckpoint == InitCheckpoint /\ [][NextCheckpoint]_vars

(***************************************************************************)
(* C14. Checkpoint durability: after every mutating call that returns,     *)
(* the state file holds the map in memory: a store loaded from the file    *)
(* gives the same get(k) for every k and the same keys(); add(k, f) and    *)
(* reload gives get(k) with f in it, delete(k) and reload gives no k.      *)
(***************************************************************************)
C14_Durable ==
    cpPc = "ready" =>
        /\ ~load_raises(stateFile)
        /\ keys(load(stateFile)) = keys(states)
        /\ \A k \in CheckpointKeys : get(load(stateFile), k) = get(states, k)
        /\ \A k \in CheckpointKeys, f \in Flags :
              BitAnd(get(load(save(add(states, k, f))), k), f) = f
        /\ \A k \in CheckpointKeys :
              k \notin keys(load(save(delete(states, k))))

\* A store that has been written: one key with EXISTS and MOVED
C14_Witness ==
    /\ cpPc = "ready"
    /\ stateFile = save(states)
    /\ \E k \in CheckpointKeys :
          get(states, k) = BitOr(CHECKPOINT_DATASET_EXISTS, CHECKPOINT_DATASET_MOVED)

(***************************************************************************)
(* C15. Loading a store from a missing file, an empty file or a file of    *)
(* white space only gives an empty store and raises no error.              *)
(***************************************************************************)
Blank(file) == ~file.exists \/ file.doc = <<>>

C15_BlankFileLoadsEmpty ==
    Blank(stateFile) =>
        /\ cpPc # "ValueError"
        /\ cpPc = "ready" =>
              (keys(states) = {} /\ \A k \in CheckpointKeys : get(states, k) = 0)

(***************************************************************************)
(* retry_n on its own, called as the tests call it: with a function that   *)
(* fails n_fail times (or always) by raising one exception and then        *)
(* returns, with exceptions=(MyProblem,) and a give_up the assertion of    *)
(* retry_n admits.  retry.at is where the call is: "call" (about to run    *)
(* func), "sleep", "returned" (retry.rc is what it returned) or "raised".  *)
(***************************************************************************)
GiveUps == {-1, 0, 3, 4, RetryGiveUp}

TestExceptions == {"MyProblem"}

\* The calls of func that are looked at
MaxCalls == MaxFails + 2

\* try: return func() / except exceptions as e: ...
retry_n_try ==
    /\ retry.at = "call" /\ retry.count < MaxCalls
    /\ LET count == retry.count + 1
           fails == retry.always \/ count <= retry.n_fail
           called == [retry EXCEPT !.count = count]
       IN
       retry' =
          IF ~fails
          THEN [called EXCEPT !.at = "returned", !.rc = "result"]
          ELSE IF ~except_matches(retry.exception, TestExceptions)
          THEN [called EXCEPT !.at = "raised"]
          ELSE IF gives_up(retry.tries + 1, retry.give_up)
          THEN [called EXCEPT !.tries = @ + 1, !.at = "returned", !.rc = "False"]
          ELSE [called EXCEPT !.tries = @ + 1, !.at = "sleep"]
    /\ UNCHANGED <<procVars, diskVars, cpVars, queueVars, workerVars,
                   catalogVars, kills, removals, alive, exit_code, unitVars>>

\* time.sleep(interval), then the next round of the loop
retry_n_sleep ==
    /\ retry.at = "sleep"
    /\ retry' = [retry EXCEPT !.at = "call"]
    /\ UNCHANGED <<procVars, diskVars, cpVars, queueVars, workerVars,
                   catalogVars, kills, removals, alive, exit_code, unitVars>>

InitRetry ==
    /\ running = FALSE
    /\ fs = [d \in Directories |-> {}]
    /\ sidecar = [k \in Keys |-> None]
    /\ stateFile = Missing
    /\ states = EmptyStates
    /\ cpPc = "new"
    /\ mainPc = "keys"
    /\ events = <<>>
    /\ submitQ = <<>>
    /\ inbox = [w \in Workers |-> <<>>]
    /\ killswitch = 0
    /\ pc = [w \in Workers |-> "recv"]
    /\ request = [w \in Workers |-> NoRequest]
    /\ full_path = [w \in Workers |-> NoPath]
    /\ dataset = [w \in Workers |-> NoDataset]
    /\ tries = [w \in Workers |-> 0]
    /\ raised = [w \in Workers |-> {}]
    /\ catalog = "up"
    /\ datainstance = <<>>
    /\ kills = 0
    /\ removals = 0
    /\ alive = Threads
    /\ exit_code = "unset"
    /\ checked = NoChecked
    /\ parsed = NoParsed
    /\ got = NoGot
    /\ posting = NoPosting
    /\ named = NoNamed
    /\ retry \in [give_up : GiveUps, n_fail : 0..MaxFails, always : BOOLEAN,
                  exception : {"MyProblem", "NotMyProblem"},
                  count : {0}, tries : {0}, at : {"call"}, rc : {"None"}]

NextRetry ==
    \/ retry_n_try
    \/ retry_n_sleep

SpecRetry == InitRetry /\ [][NextRetry]_vars

Listed == retry.exception \in TestExceptions

Over == retry.at \in {"returned", "raised"}

(***************************************************************************)
(* C16. Retry call count: for a function that fails N times with a listed  *)
(* exception and then succeeds, retry_n with give_up = G > 0 calls it N+1  *)
(* times and returns its result when N < G, and otherwise calls it G times *)
(* and returns False instead of raising.                                   *)
(***************************************************************************)
C16_CallCount ==
    (Over /\ Listed /\ ~retry.always /\ retry.give_up > 0)
    => /\ retry.at = "returned"
       /\ IF retry.n_fail < retry.give_up
          THEN retry.count = retry.n_fail + 1 /\ retry.rc = "result"
          ELSE retry.count = retry.give_up /\ retry.rc = "False"

\* The function failed as often as give_up allows: retry_n returned False
C16_Witness ==
    /\ retry.at = "returned" /\ retry.rc = "False"
    /\ retry.give_up > 0 /\ retry.n_fail = retry.give_up
    /\ retry.count = retry.give_up

(***************************************************************************)
(* C17. An exception that is not listed leaves retry_n at its first        *)
(* occurrence: the function was called once, nothing slept or retried,     *)
(* and no False was returned in its place.                                 *)
(***************************************************************************)
C17_UnlistedPropagates ==
    (~Listed /\ (retry.always \/ retry.n_fail > 0) /\ retry.count > 0)
    => /\ retry.at = "raised"
       /\ retry.count = 1
       /\ retry.tries = 0
       /\ retry.rc = "None"

\* NotMyProblem has left retry_n
C17_Witness ==
    /\ retry.at = "raised" /\ retry.exception = "NotMyProblem"
    /\ retry.count = 1

(***************************************************************************)
(* C18. With give_up <= 0 retry_n never returns False: for a function that *)
(* fails N times with a listed exception and then succeeds it makes N+1    *)
(* calls and returns the result; for one that always fails it does not     *)
(* return.                                                                 *)
(***************************************************************************)
C18_Indefinitely ==
    (Listed /\ retry.give_up <= 0)
    => /\ retry.rc # "False"
       /\ retry.at # "raised"
       /\ retry.count <= retry.tries + 1
       /\ retry.at = "returned"
             => /\ ~retry.always
                /\ retry.count = retry.n_fail + 1
                /\ retry.rc = "result"
       /\ (retry.at \in {"call", "sleep"} /\ ~retry.always)
             => retry.count <= retry.n_fail

\* After MaxFails failures the function succeeded and retry_n returned
C18_Witness ==
    /\ retry.give_up <= 0 /\ retry.at = "returned"
    /\ retry.n_fail = MaxFails /\ retry.count = MaxFails + 1

(***************************************************************************)
(* C19. move is all-or-nothing: when move has returned or raised, either   *)
(* both files are in the destination directory and not in the source       *)
(* directory and both paths of the Dataset point to the destination, or    *)
(* the Dataset has its paths as before and is complete at the source; also *)
(* when the first rename succeeded and the second failed.  (No file is     *)
(* taken away from outside meanwhile.)                                     *)
(***************************************************************************)
MoveEnds(w) ==
    /\ pc[w] \in {"rename_data", "rename_md5"} /\ running'
    /\ pc'[w] \notin MoveStages
    /\ removals = 0

\* The Dataset's paths when move is over: a rename that raises leaves them
PathsAfterMove(w) == IF pc'[w] = "add_moved" THEN dataset'[w] ELSE dataset[w]

C19_MoveAllOrNothing ==
    [][\A w \in Workers :
        MoveEnds(w)
        => LET k == get_dataset_key(dataset[w])
               source == full_path[w].dir
               paths == PathsAfterMove(w)
           IN
           \/ /\ <<k, DataSuffix>> \in fs'[destination_path]
              /\ <<k, Md5Suffix>> \in fs'[destination_path]
              /\ source # destination_path
                    => /\ <<k, DataSuffix>> \notin fs'[source]
                       /\ <<k, Md5Suffix>> \notin fs'[source]
              /\ paths.data_path.dir = destination_path
              /\ paths.md5_path.dir = destination_path
           \/ /\ paths = Dataset(full_path[w])
              /\ <<k, DataSuffix>> \in fs'[source]
              /\ <<k, Md5Suffix>> \in fs'[source]]_vars

(***************************************************************************)
(* C20. The distributor forwards every job it takes from the inbound       *)
(* channel to exactly one worker: the job goes to the end of one worker's  *)
(* pipe and of no other, nothing else enters a pipe, and a job leaves a    *)
(* pipe only when its worker receives it.                                  *)
(***************************************************************************)
Forwarded(w) ==
    /\ submitQ # <<>>
    /\ submitQ' = Tail(submitQ)
    /\ inbox'[w] = Append(inbox[w], Head(submitQ))
    /\ \A v \in Workers \ {w} : inbox'[v] = inbox[v]

Received(w) ==
    /\ inbox[w] # <<>>
    /\ inbox'[w] = Tail(inbox[w])
    /\ pc[w] = "recv" /\ request'[w] = Head(inbox[w])
    /\ \A v \in Workers \ {w} : inbox'[v] = inbox[v]

C20_ForwardedToOneWorker ==
    [][running' =>
        /\ Len(submitQ') < Len(submitQ) => \E w \in Workers : Forwarded(w)
        /\ inbox' # inbox
              => \E w \in Workers : Forwarded(w) \/ Received(w)]_vars

\* The only job has been forwarded: it is in one worker's pipe, the other
\* worker is waiting at an empty pipe
C20_Witness ==
    \E w, v \in Workers :
        /\ running /\ w # v
        /\ Len(inbox[w]) = 1 /\ inbox[v] = <<>> /\ pc[v] = "recv"
        /\ submitQ = <<>> /\ events = <<>>

(***************************************************************************)
(* The watcher on its own: DirectoryWatcherThread.run_inner handed a       *)
(* sequence of events by inotify, of several types, for data files and     *)
(* .md5 files, with None in between.                                       *)
(***************************************************************************)
AttribSets == {{"IN_CLOSE_WRITE"}, {"IN_MODIFY"}, {"IN_MOVED_TO"}}

InotifyEvents ==
    {[attribs |-> a, filename |-> f] : a \in AttribSets, f \in FileNames}
        \cup {NoEvent}

RECURSIVE SeqsUpTo(_, _)
SeqsUpTo(S, n) ==
    IF n = 0 THEN {<<>>}
    ELSE LET shorter == SeqsUpTo(S, n - 1)
         IN shorter \cup {Append(q, x) : q \in shorter, x \in S}

InitWatcher ==
    /\ running = TRUE
    /\ fs = [d \in Directories |-> {}]
    /\ sidecar = [k \in Keys |-> None]
    /\ stateFile = Missing
    /\ states = EmptyStates
    /\ cpPc = "serving"
    /\ mainPc = "wait"
    /\ events \in SeqsUpTo(InotifyEvents, MaxEvents)
    /\ submitQ = <<>>
    /\ inbox = [w \in Workers |-> <<>>]
    /\ killswitch = 0
    /\ pc = [w \in Workers |-> "recv"]
    /\ request = [w \in Workers |-> NoRequest]
    /\ full_path = [w \in Workers |-> NoPath]
    /\ dataset = [w \in Workers |-> NoDataset]
    /\ tries = [w \in Workers |-> 0]
    /\ raised = [w \in Workers |-> {}]
    /\ catalog = "up"
    /\ datainstance = <<>>
    /\ kills = 0
    /\ removals = 0
    /\ alive = Threads
    /\ exit_code = "unset"
    /\ checked = NoChecked
    /\ parsed = NoParsed
    /\ got = NoGot
    /\ posting = NoPosting
    /\ named = NoNamed
    /\ retry = NoRetry

NextWatcher == ProcessInotifyEvent

SpecWatcher == InitWatcher /\ [][NextWatcher]_vars

(***************************************************************************)
(* C21. The watcher emits a job for an event if and only if the event      *)
(* carries IN_CLOSE_WRITE and its file name ends in ".md5": each such      *)
(* event adds its file name once to the end of the jobs emitted, every     *)
(* other event (a data file written, another event type, None) adds        *)
(* nothing, and events are consumed in their order of arrival.             *)
(***************************************************************************)
Md5Written(event) ==
    /\ "IN_CLOSE_WRITE" \in event.attribs
    /\ event.filename[2] = Md5Suffix

C21_WatcherEmits ==
    [][/\ events # <<>> /\ events' = Tail(events)
       /\ IF Md5Written(Head(events))
          THEN submitQ' = Append(submitQ, Head(events).filename)
          ELSE submitQ' = submitQ]_vars

\* The watcher has emitted one job; the event it reads next is of another
\* type, for an .md5 file
C21_Witness ==
    /\ Len(submitQ) = 1 /\ submitQ[1][2] = Md5Suffix
    /\ Len(events) = 1
    /\ Head(events).attribs = {"IN_MOVED_TO"}
    /\ Head(events).filename[2] = Md5Suffix

(***************************************************************************)
(* Fatal errors: a thread's run_inner ends with an exception, ZMQThread.run *)
(* logs it and sends KILL; the main thread is interrupted; the start of    *)
(* the process fails.                                                      *)
(***************************************************************************)
\* The requests of process_file that end in Checkpoint.save
SavingStages ==
    {"lock", "add_exists", "unlock_invalid", "add_moved", "delete",
     "unlock_giveup"}

\* Worker w waits for the answer to a request that reaches save()
Saves(w) ==
    LET key == get_dataset_key(dataset[w]) IN
    /\ pc[w] \in SavingStages
    /\ pc[w] = "lock" => lock_rc(states, key)
    /\ pc[w] = "delete" => key \in DOMAIN states

\* The map that request has made when save() is called
Requested(w) ==
    LET key == get_dataset_key(dataset[w]) IN
    CASE pc[w] = "lock" -> lock(states, key)
      [] pc[w] = "add_exists" -> add(states, key, CHECKPOINT_DATASET_EXISTS)
      [] pc[w] = "add_moved" -> add(states, key, CHECKPOINT_DATASET_MOVED)
      [] pc[w] \in {"unlock_invalid", "unlock_giveup"} -> unlock(states, key)
      [] pc[w] = "delete" -> delete(states, key)
      [] OTHER -> states

\* What a save() that raised IOError leaves: open(path, 'w') failed and the
\* file is as it was, or it truncated the file and the write failed
FailedSave(file) == {file, EmptyFile}

\* Checkpoint.save raises IOError while the checkpoint thread serves a
\* request of worker w: run_inner ends, the request is never answered
CheckpointSaveFails(w) ==
    /\ Serving /\ Saves(w)
    /\ states' = Requested(w)
    /\ stateFile' \in FailedSave(stateFile)
    /\ cpPc' = "dead"
    /\ killswitch' = killswitch + 1
    /\ UNCHANGED <<running, mainPc, diskVars, queueVars, workerVars,
                   catalogVars, envVars>>

\* ... or in unlock_all, at the first key it unlocks
UnlockAllFails ==
    /\ running /\ cpPc = "unlock_all"
    /\ \E key \in keys(load(stateFile)) :
          states' = unlock(load(stateFile), key)
    /\ stateFile' \in FailedSave(stateFile)
    /\ cpPc' = "dead"
    /\ killswitch' = killswitch + 1
    /\ UNCHANGED <<running, mainPc, diskVars, queueVars, workerVars,
                   catalogVars, envVars>>

\* The run_inner of the watcher (inotify) or of the distributor (zmq.proxy)
\* ends with an exception
ThreadEnds(t) ==
    /\ running /\ t \in alive
    /\ alive' = alive \ {t}
    /\ killswitch' = killswitch + 1
    /\ UNCHANGED <<running, cpPc, mainPc, diskVars, cpVars, queueVars,
                   workerVars, catalogVars, kills, removals, retry, exit_code,
                   unitVars>>

\* SIGINT: KeyboardInterrupt in the main thread.  main() catches it around
\* killswitch.recv() and returns nothing; anywhere before it leaves main(),
\* run_with_exception_logging (except Exception) and run()
Interrupt ==
    /\ running
    /\ running' = FALSE
    /\ exit_code' = IF mainPc = "wait" THEN "None" ELSE "KeyboardInterrupt"
    /\ Volatile
    /\ UNCHANGED <<diskVars, stateFile, catalogVars, kills, removals, retry,
                   unitVars>>

\* The process is started and main() raises before any job is submitted
\* (DirectoryWatcherThread.__init__ cannot set up the watch):
\* run_with_exception_logging returns 255 and run() returns it
StartupFails ==
    /\ ~running
    /\ exit_code' = "255"
    /\ UNCHANGED <<procVars, diskVars, cpVars, queueVars, workerVars,
                   catalogVars, kills, removals, retry, alive, unitVars>>

\* The entry a run that was killed while validating dataset 1 has left
LeftLocked ==
    [k \in {1} |-> BitOr(CHECKPOINT_DATASET_EXISTS, CHECKPOINT_DATASET_LOCKED)]

\* One run of the process, started on an empty spool directory with no
\* state file, or on what a run that was killed while it held a lock left
InitFatal ==
    /\ running = TRUE
    /\ \/ /\ fs = [d \in Directories |-> {}]
          /\ sidecar = [k \in Keys |-> None]
          /\ stateFile = Missing
       \/ /\ fs = [d \in Directories |->
                    IF d = spool_path THEN {<<1, DataSuffix>>, <<1, Md5Suffix>>}
                    ELSE {}]
          /\ sidecar = [k \in Keys |-> IF k = 1 THEN Md5Of(DataBytes) ELSE None]
          /\ stateFile = save(LeftLocked)
    /\ states = load(stateFile)
    /\ cpPc = "unlock_all"
    /\ mainPc = "keys"
    /\ events = <<>>
    /\ submitQ = <<>>
    /\ inbox = [w \in Workers |-> <<>>]
    /\ killswitch = 0
    /\ pc = [w \in Workers |-> "recv"]
    /\ request = [w \in Workers |-> NoRequest]
    /\ full_path = [w \in Workers |-> NoPath]
    /\ dataset = [w \in Workers |-> NoDataset]
    /\ tries = [w \in Workers |-> 0]
    /\ raised = [w \in Workers |-> {}]
    /\ catalog \in {"up", "unavailable"}
    /\ datainstance = <<>>
    /\ kills = 0
    /\ removals = 0
    /\ alive = Threads
    /\ exit_code = "unset"
    /\ checked = NoChecked
    /\ parsed = NoParsed
    /\ got = NoGot
    /\ posting = NoPosting
    /\ named = NoNamed
    /\ retry = NoRetry

NextFatal ==
    \/ Program
    \/ Sender
    \/ CatalogRecovers
    \/ \E w \in Workers : CheckpointSaveFails(w)
    \/ UnlockAllFails
    \/ \E t \in Threads : ThreadEnds(t)
    \/ Interrupt
    \/ StartupFails

SpecFatal ==
    InitFatal /\ [][NextFatal]_vars /\ ThreadsFair /\ WF_vars(CatalogRecovers)

\* A thread has sent KILL and the main thread has not yet received it
KillSent == running /\ killswitch > 0

(***************************************************************************)
(* C22. Fatal error propagation: when a thread (a worker, the checkpoint   *)
(* thread, the watcher, the distributor) has ended with an exception it    *)
(* does not handle, the main thread receives the KILL, stops waiting,      *)
(* joins the threads and the process ends.                                 *)
(***************************************************************************)
C22_FatalErrorEndsProcess == KillSent ~> ~running

(***************************************************************************)
(* C23. Exit status: when the daemon, ready and waiting, shuts down, run   *)
(* returns 0 (or nothing, which is exit status 0) if no thread has failed, *)
(* as after an interrupt signal, and a non-zero value if the shutdown was  *)
(* caused by the uncaught error of a worker, checkpoint, watcher or        *)
(* distributor thread.                                                     *)
(***************************************************************************)
C23_ExitStatus ==
    [][(running /\ ~running' /\ mainPc = "wait")
        => IF killswitch > 0
           THEN exit_code' \notin {"0", "None"}
           ELSE exit_code' \in {"0", "None"}]_vars

(***************************************************************************)
(* A Dataset object on its own: both files are there, valid() is called on *)
(* the object any number of times while the files are written again.       *)
(* checked.rc is what valid() returned, or the exception it raised, since  *)
(* the files were last written.                                            *)
(***************************************************************************)
\* The daemon's variables while an object or a function is looked at alone
DaemonOff ==
    /\ running = FALSE
    /\ fs = [d \in Directories |-> {}]
    /\ sidecar = [k \in Keys |-> None]
    /\ stateFile = Missing
    /\ states = EmptyStates
    /\ cpPc = "new"
    /\ mainPc = "keys"
    /\ events = <<>>
    /\ submitQ = <<>>
    /\ inbox = [w \in Workers |-> <<>>]
    /\ killswitch = 0
    /\ pc = [w \in Workers |-> "recv"]
    /\ request = [w \in Workers |-> NoRequest]
    /\ full_path = [w \in Workers |-> NoPath]
    /\ dataset = [w \in Workers |-> NoDataset]
    /\ tries = [w \in Workers |-> 0]
    /\ raised = [w \in Workers |-> {}]
    /\ catalog = "up"
    /\ datainstance = <<>>
    /\ kills = 0
    /\ removals = 0
    /\ alive = Threads
    /\ exit_code = "unset"
    /\ retry = NoRetry
    /\ got = NoGot
    /\ posting = NoPosting
    /\ named = NoNamed

daemonOffVars ==
    <<procVars, diskVars, cpVars, queueVars, workerVars, catalogVars,
      kills, removals, retry, alive, exit_code, got, posting, named>>

\* What the data file holds: DataBytes, or DataBytes with one byte changed
Contents == {DataBytes, "tesT"}

\* What the .md5 file holds
Md5Files == {Md5Of(c) : c \in Contents} \cup {"ffffffff", ShortSidecar}

\* Dataset.valid, with read_md5sum and calculate_md5sum: md5_key is read
\* when it is not set (and is set before its length is looked at),
\* md5_result is calculated when it is not set
Dataset_valid ==
    /\ checked # NoChecked
    /\ LET reads == checked.md5_key = "None"
           md5_key == IF reads THEN checked.md5file ELSE checked.md5_key
           md5_result == IF checked.md5_result = "None" THEN Md5Of(checked.data)
                         ELSE checked.md5_result
       IN
       checked' =
          IF reads /\ SidecarLen(md5_key) # 32
          THEN [checked EXCEPT !.md5_key = md5_key,
                               !.rc = "InvalidDataException"]
          ELSE [checked EXCEPT !.md5_key = md5_key, !.md5_result = md5_result,
                               !.rc = IF md5_key = md5_result THEN "True"
                                      ELSE "False"]
    /\ UNCHANGED <<daemonOffVars, parsed>>

\* Dataset.__init__ on the same path: a new object
Dataset_init ==
    /\ checked # NoChecked
    /\ checked' = [checked EXCEPT !.md5_key = "None", !.md5_result = "None",
                                  !.rc = "None"]
    /\ UNCHANGED <<daemonOffVars, parsed>>

\* The data file is written again
DataFileWritten(content) ==
    /\ checked # NoChecked
    /\ content # checked.data
    /\ checked' = [checked EXCEPT !.data = content, !.rc = "None"]
    /\ UNCHANGED <<daemonOffVars, parsed>>

\* The .md5 file is written again
Md5FileWritten(text) ==
    /\ checked # NoChecked
    /\ text # checked.md5file
    /\ checked' = [checked EXCEPT !.md5file = text, !.rc = "None"]
    /\ UNCHANGED <<daemonOffVars, parsed>>

InitDataset ==
    /\ DaemonOff
    /\ checked \in [data : Contents, md5file : Md5Files, md5_key : {"None"},
                    md5_result : {"None"}, rc : {"None"}]
    /\ parsed = NoParsed

NextDataset ==
    \/ Dataset_valid
    \/ Dataset_init
    \/ \E content \in Contents : DataFileWritten(content)
    \/ \E text \in Md5Files : Md5FileWritten(text)

SpecDataset == InitDataset /\ [][NextDataset]_vars

(***************************************************************************)
(* C24. For a complete dataset whose .md5 file has the full length and     *)
(* has not changed since the object read it, valid() returns true if and   *)
(* only if the hash of what the data file holds now equals what the .md5   *)
(* file holds; also after one byte of the data file has changed, on an     *)
(* object whose valid() had returned true before.                          *)
(***************************************************************************)
C24_ValidIffHashMatches ==
    (/\ checked.rc \in {"True", "False"}
     /\ SidecarLen(checked.md5file) = 32
     /\ checked.md5_key = checked.md5file)
    => (checked.rc = "True" <=> Md5Of(checked.data) = checked.md5file)

(***************************************************************************)
(* parse_filename_timestamp on its own: called once with a reference time  *)
(* and a stamp MMDDHHMM.  Only the years and months of the two times and   *)
(* the day of the stamp decide the year returned.                          *)
(***************************************************************************)
NowYears == {2015, 2016}
Months == 1..12
StampDays == {1, 29, 31}

IsLeap(y) == (y % 4 = 0 /\ y % 100 # 0) \/ y % 400 = 0

DaysIn(y, m) ==
    IF m = 2 THEN (IF IsLeap(y) THEN 29 ELSE 28)
    ELSE IF m \in {4, 6, 9, 11} THEN 30
    ELSE 31

\* datetime.strptime / datetime.replace accept the date
ValidDate(y, m, d) == m \in Months /\ d >= 1 /\ d <= DaysIn(y, m)

\* now + relativedelta(months=delta): its year and month
AddMonths(now, delta) ==
    LET index == now.year * 12 + (now.month - 1) + delta
    IN [year |-> index \div 12, month |-> (index % 12) + 1]

\* One round of 'for delta in [-1, 1]' on the year of ts
Alternate(now, delta, month, year) ==
    LET ts_alternate == AddMonths(now, delta)
    IN IF ts_alternate.month = month THEN ts_alternate.year ELSE year

\* parse_filename_timestamp(stamp, now): the year of the timestamp it
\* returns, or 0 when strptime or replace raises ValueError
parse_filename_timestamp(stamp, now) ==
    IF ~ValidDate(now.year, stamp.month, stamp.day) THEN 0
    ELSE LET first == Alternate(now, -1, stamp.month, now.year)
             second == Alternate(now, 1, stamp.month, first)
         IN IF first # now.year /\ ~ValidDate(first, stamp.month, stamp.day)
            THEN 0
            ELSE IF second # first /\ ~ValidDate(second, stamp.month, stamp.day)
            THEN 0
            ELSE second

ParseFilenameTimestamp ==
    /\ parsed.at = "call"
    /\ LET year == parse_filename_timestamp(parsed.stamp, parsed.now) IN
       parsed' = [parsed EXCEPT !.year = year,
                                !.at = IF year = 0 THEN "ValueError"
                                       ELSE "returned"]
    /\ UNCHANGED <<daemonOffVars, checked>>

InitParse ==
    /\ DaemonOff
    /\ checked = NoChecked
    /\ parsed \in [now : [year : NowYears, month : Months],
                   stamp : [month : Months, day : StampDays],
                   at : {"call"}, year : {0}]

NextParse == ParseFilenameTimestamp

SpecParse == InitParse /\ [][NextParse]_vars

(***************************************************************************)
(* C25. Filename timestamp year rule: for every reference time now and     *)
(* every stamp whose month M and day D are a date in the year chosen,      *)
(* parse_filename_timestamp returns a timestamp whose year is the one      *)
(* among now.year - 1, now.year, now.year + 1 that places month M closest  *)
(* to now (either of the two when M is six months from now both ways).     *)
(***************************************************************************)
Abs(n) == IF n < 0 THEN -n ELSE n

\* Months between now and month M of year y
MonthsAway(now, y, M) == Abs(12 * (y - now.year) + M - now.month)

ClosestYears(now, M) ==
    LET candidates == {now.year - 1, now.year, now.year + 1}
    IN {y \in candidates :
          \A z \in candidates : MonthsAway(now, y, M) <= MonthsAway(now, z, M)}

C25_ClosestYear ==
    LET closest == ClosestYears(parsed.now, parsed.stamp.month) IN
    (/\ parsed.at # "call"
     /\ \E y \in closest : ValidDate(y, parsed.stamp.month, parsed.stamp.day))
    => /\ parsed.at = "returned"
       /\ parsed.year \in closest

(***************************************************************************)
(* C26. Startup unlock ordering: the checkpoint thread executes unlock_all *)
(* before it answers its first request.  Every request of a worker or of   *)
(* the main thread is answered by the serving loop; the step that enters   *)
(* the loop leaves no key LOCKED, in memory and in the state file; and     *)
(* while the loop serves, LOCKED is set only by a lock granted in this     *)
(* run.  So no request is answered against a LOCKED flag left by a         *)
(* previous run.                                                           *)
(***************************************************************************)
\* The places where a worker waits for the checkpoint thread's answer
RequestStages == SavingStages \cup {"get_moved"}

Answered ==
    \/ \E w \in Workers : pc[w] \in RequestStages /\ pc'[w] # pc[w]
    \/ mainPc = "keys" /\ mainPc' = "scan"

C26_UnlockAllFirst ==
    [][running' =>
        /\ Answered => cpPc = "serving"
        /\ (cpPc # "serving" /\ cpPc' = "serving")
              => /\ cpPc = "unlock_all"
                 /\ \A k \in Keys : ~Locked(states', k)
                 /\ \A k \in Keys : ~Locked(load(stateFile'), k)
                 /\ keys(states') = keys(load(stateFile))
        /\ \A k \in Keys :
              (cpPc = "serving" /\ ~Locked(states, k) /\ Locked(states', k))
              => LockGranted(k)]_vars

\* After a restart a worker has been granted the lock of an intact dataset
\* whose entry, with EXISTS and without MOVED, was left by the run that was
\* killed holding that lock
C26_Witness ==
    \E w \in Workers :
        LET k == get_dataset_key(dataset[w]) IN
        /\ Serving /\ kills > 0
        /\ pc[w] = "add_exists" /\ Good(k)
        /\ get(states, k) = BitOr(CHECKPOINT_DATASET_EXISTS,
                                  CHECKPOINT_DATASET_LOCKED)

(***************************************************************************)
(* C27. Startup replay ordering: every job of the startup recovery (one    *)
(* per checkpoint key, then one per .md5 file found in the spool           *)
(* directory) is submitted before the watcher emits its first live job:    *)
(* the watcher emits only when the main thread has finished the replay.    *)
(***************************************************************************)
WatcherEmits ==
    /\ running /\ running'
    /\ events # <<>> /\ events' = Tail(events)
    /\ submitQ' = Append(submitQ, Head(events).filename)

C27_ReplayBeforeLiveJobs ==
    [][WatcherEmits => mainPc = "wait"]_vars

(***************************************************************************)
(* C28. The checkpoint entry of a dataset is deleted only after its data   *)
(* instance has been saved: an entry leaves the store, in memory or in the *)
(* state file, only by the delete(k) of a worker that holds k; that worker *)
(* came to the delete from the save that appended a data instance for k,   *)
(* in the same attempt; no failing path leads to the delete.               *)
(***************************************************************************)
\* The resource a successful save for dataset k appends
SavedFor(resources, k) ==
    /\ resources # <<>>
    /\ resources[Len(resources)].url = <<ecreceive_base_url, <<k, DataSuffix>>>>

C28_DeleteAfterSave ==
    [][(running /\ running') =>
        /\ \A k \in Keys :
              (\/ k \in keys(states) /\ k \notin keys(states')
               \/ k \in keys(load(stateFile)) /\ k \notin keys(load(stateFile')))
              => \E w \in Workers :
                    /\ cpPc = "serving"
                    /\ pc[w] = "delete" /\ pc'[w] = "recv"
                    /\ get_dataset_key(dataset[w]) = k
                    /\ PublishedIn(datainstance, k) # {}
        /\ \A w \in Workers :
              (pc'[w] = "delete" /\ pc[w] # "delete")
              => /\ pc[w] = "save"
                 /\ catalog \notin {"unavailable", "no_format"}
                 /\ Len(datainstance') = Len(datainstance) + 1
                 /\ SavedFor(datainstance', get_dataset_key(dataset[w]))]_vars

\* A worker that failed twice and then saved the data instance is about to
\* delete the entry
C28_Witness ==
    \E w \in Workers :
        LET k == get_dataset_key(dataset[w]) IN
        /\ Serving /\ pc[w] = "delete" /\ tries[w] = 2
        /\ k \in keys(states)
        /\ SavedFor(datainstance, k)

(***************************************************************************)
(* C29. No unvalidated publication: a data instance is created for dataset *)
(* k only by a worker whose attempt holds the lock on k (LOCKED is set),   *)
(* in which valid() returned true (the stages after validation are entered *)
(* only from a valid() that returns true), and at a moment when both files *)
(* of k are in the destination directory.                                  *)
(***************************************************************************)
ValidatedStages ==
    {"get_moved", "move", "rename_data", "rename_md5", "add_moved", "submit",
     "save", "sleep", "unlock_giveup", "delete"}

C29_NoUnvalidatedPublication ==
    [][running' =>
        /\ datainstance' # datainstance
              => \E w \in Workers :
                    LET k == get_dataset_key(dataset[w]) IN
                    /\ pc[w] = "save" /\ Holds(w, k)
                    /\ Locked(states, k)
                    /\ \A v \in Workers \ {w} : ~Holds(v, k)
                    /\ InDirectory(k, destination_path)
                    /\ dataset[w] = Dataset(Path(destination_path, request[w]))
                    /\ sidecar[k] = Md5Of(DataBytes)
                    /\ datainstance' = Append(datainstance, datainstance'[Len(datainstance')])
                    /\ SavedFor(datainstance', k)
        /\ \A w \in Workers :
              (pc'[w] \in ValidatedStages /\ pc[w] \notin ValidatedStages)
              => /\ pc[w] = "valid"
                 /\ valid(dataset[w]) = "True"
                 /\ Locked(states, get_dataset_key(dataset[w]))]_vars

\* A worker that validated and moved the dataset is about to save the data
\* instance, while the other worker has a job for the same dataset
C29_Witness ==
    \E w, v \in Workers :
        LET k == get_dataset_key(dataset[w]) IN
        /\ running /\ pc[w] = "save" /\ full_path[w].dir = spool_path
        /\ catalog = "up" /\ Published(k) = {}
        /\ v # w /\ pc[v] \notin {"recv", "dead"} /\ request[v][1] = k

(***************************************************************************)
(* C30. Move idempotence: process_file moves the dataset if and only if    *)
(* MOVED is not set for the key when it is read after validation; an       *)
(* attempt that finds MOVED set goes straight to the publish stage and     *)
(* renames nothing; MOVED is added only by the worker whose two renames    *)
(* have succeeded, with both files in the destination directory.           *)
(***************************************************************************)
C30_MoveIdempotence ==
    [][running' =>
        /\ \A w \in Workers :
              LET k == get_dataset_key(dataset[w]) IN
              /\ (pc[w] = "get_moved" /\ pc'[w] # "get_moved")
                    => /\ IF HasFlag(states, k, CHECKPOINT_DATASET_MOVED)
                          THEN pc'[w] = "submit"
                          ELSE pc'[w] = "move"
                       /\ UNCHANGED <<fs, states, stateFile, dataset>>
              /\ (pc'[w] = "move" /\ pc[w] # "move")
                    => (pc[w] = "get_moved"
                        /\ ~HasFlag(states, k, CHECKPOINT_DATASET_MOVED))
              /\ (pc'[w] \in {"rename_data", "rename_md5"} /\ pc[w] # pc'[w])
                    => pc[w] \in {"move", "rename_data"}
              /\ (pc'[w] = "add_moved" /\ pc[w] # "add_moved")
                    => /\ pc[w] = "rename_md5"
                       /\ fs' = os_rename(fs, dataset[w].md5_path, destination_path)
                       /\ dataset'[w] = Dataset(Path(destination_path, request[w]))
        /\ \A k \in Keys :
              (/\ cpPc = "serving"
               /\ ~HasFlag(states, k, CHECKPOINT_DATASET_MOVED)
               /\ HasFlag(states', k, CHECKPOINT_DATASET_MOVED))
              => \E w \in Workers :
                    /\ pc[w] = "add_moved" /\ pc'[w] = "submit"
                    /\ get_dataset_key(dataset[w]) = k
                    /\ dataset[w].data_path.dir = destination_path
                    /\ dataset[w].md5_path.dir = destination_path]_vars

\* After a restart a worker reads the flags of a dataset that the run
\* before had moved: MOVED is set and both files are at the destination
C30_Witness ==
    \E w \in Workers :
        LET k == get_dataset_key(dataset[w]) IN
        /\ Serving /\ kills > 0 /\ pc[w] = "get_moved"
        /\ HasFlag(states, k, CHECKPOINT_DATASET_MOVED)
        /\ InDirectory(k, destination_path)
        /\ full_path[w].dir = destination_path

(***************************************************************************)
(* C31. EXISTS and MOVED are monotone: once one of them is set for a key   *)
(* it is cleared by no step (unlock, unlock_all, abort, resubmission, the  *)
(* end of the process and its restart) but the delete(k) of the worker     *)
(* that has published the dataset, which removes the whole entry.          *)
(***************************************************************************)
KeptFlags == {CHECKPOINT_DATASET_EXISTS, CHECKPOINT_DATASET_MOVED}

\* Worker w's checkpoint_delete at the end of productstatus_submit
DeletesEntry(w, k) ==
    /\ pc[w] = "delete" /\ pc'[w] = "recv"
    /\ get_dataset_key(dataset[w]) = k
    /\ k \notin keys(load(stateFile'))
    /\ PublishedIn(datainstance, k) # {}

C31_FlagsMonotone ==
    [][\A k \in Keys, f \in KeptFlags :
          /\ (HasFlag(load(stateFile), k, f) /\ ~HasFlag(load(stateFile'), k, f))
                => \E w \in Workers : DeletesEntry(w, k)
          /\ (running /\ running' /\ HasFlag(states, k, f) /\ ~HasFlag(states', k, f))
                => \E w \in Workers : DeletesEntry(w, k)]_vars

\* After a kill and a restart, unlock_all has run on an entry that had
\* EXISTS, MOVED and LOCKED: the two flags are still there, the lock is not
C31_Witness ==
    \E k \in Keys :
        /\ running /\ cpPc = "serving" /\ kills > 0
        /\ get(states, k) = BitOr(CHECKPOINT_DATASET_EXISTS, CHECKPOINT_DATASET_MOVED)
        /\ load(stateFile) = states

(***************************************************************************)
(* C32. Where only the pipeline moves files: whenever the checkpoint entry *)
(* of a key has MOVED set, in the state file or in the running thread's    *)
(* map, both files of the key are in the destination directory and         *)
(* neither is in the spool directory.                                      *)
(***************************************************************************)
C32_MovedMeansInDestination ==
    \A k \in Keys :
        (\/ HasFlag(load(stateFile), k, CHECKPOINT_DATASET_MOVED)
         \/ HasFlag(states, k, CHECKPOINT_DATASET_MOVED))
            => /\ InDirectory(k, destination_path)
               /\ <<k, DataSuffix>> \notin fs[spool_path]
               /\ <<k, Md5Suffix>> \notin fs[spool_path]

\* A worker has recorded the move of the dataset it holds
C32_Witness ==
    \E k \in Keys, w \in Workers :
        /\ running /\ pc[w] = "submit" /\ get_dataset_key(dataset[w]) = k
        /\ HasFlag(states, k, CHECKPOINT_DATASET_MOVED)
        /\ HasFlag(load(stateFile), k, CHECKPOINT_DATASET_MOVED)

(***************************************************************************)
(* C33. No lock is held across a retry sleep: whenever a worker sleeps     *)
(* between two attempts of retry_n in the publish stage, the key of the    *)
(* dataset it is processing is not LOCKED in the checkpoint store.         *)
(***************************************************************************)
C33_NoLockAcrossSleep ==
    \A w \in Workers :
        (running /\ pc[w] = "sleep")
            => ~HasFlag(states, get_dataset_key(dataset[w]), CHECKPOINT_DATASET_LOCKED)

(***************************************************************************)
(* C34. Only the holder releases a lock.  A worker gets past                *)
(* checkpoint_lock only when its own lock request found the key not        *)
(* LOCKED, and it keeps that key until process_file ends; every step of a  *)
(* running process that clears LOCKED of a key or removes its entry is the *)
(* unlock or delete of the worker that was granted the lock of that key    *)
(* (or the unlock_all of the checkpoint thread's start, which no worker    *)
(* sends); a worker that was not granted the lock leaves the store and the *)
(* state file as they are.                                                 *)
(***************************************************************************)
ReleasingStages == {"unlock_invalid", "unlock_giveup", "delete"}

\* The step takes LOCKED away from key k or removes its entry
Releases(k) ==
    \/ HasFlag(states, k, CHECKPOINT_DATASET_LOCKED)
          /\ ~HasFlag(states', k, CHECKPOINT_DATASET_LOCKED)
    \/ k \in keys(states) /\ k \notin keys(states')

C34_OnlyHolderReleases ==
    [][(running /\ running') =>
        /\ \A w \in Workers :
              /\ (pc[w] \notin LockedStages /\ pc'[w] \in LockedStages)
                    => /\ pc[w] = "lock"
                       /\ ~HasFlag(states, get_dataset_key(dataset[w]),
                                   CHECKPOINT_DATASET_LOCKED)
                       /\ dataset'[w] = dataset[w]
              /\ (pc[w] \in LockedStages /\ pc'[w] \in LockedStages)
                    => get_dataset_key(dataset'[w]) = get_dataset_key(dataset[w])
              /\ (pc[w] \notin LockedStages /\ pc'[w] \notin LockedStages
                    /\ pc'[w] # pc[w])
                    => (states' = states /\ stateFile' = stateFile)
        /\ \A k \in Keys :
              Releases(k) =>
                  \/ cpPc = "unlock_all" /\ cpPc' = "serving"
                  \/ \E w \in Workers :
                        /\ Holds(w, k)
                        /\ pc[w] \in ReleasingStages /\ pc'[w] = "recv"
                        /\ \A v \in Workers \ {w} : pc'[v] = pc[v]]_vars

\* The holder of a key is about to give the lock back while another worker
\* is about to ask for the same key and be refused
C34_Witness ==
    \E k \in Keys, w1, w2 \in Workers :
        /\ running /\ cpPc = "serving"
        /\ pc[w1] = "unlock_giveup" /\ get_dataset_key(dataset[w1]) = k
        /\ pc[w2] = "lock" /\ get_dataset_key(dataset[w2]) = k
        /\ HasFlag(states, k, CHECKPOINT_DATASET_LOCKED)

(***************************************************************************)
(* C35. An attempt that ends before the lock is granted changes nothing:   *)
(* when the job's file is in neither directory, when the two files are not *)
(* both in the directory it was found in, or when lock(key) answers False, *)
(* process_file returns, and the step that returns leaves the checkpoint   *)
(* store, the state file, the directories, the catalog and the job queues  *)
(* as they are.                                                            *)
(***************************************************************************)
BeforeLock == {"check_destination", "check_spool", "complete", "lock"}

\* process_file returns before it holds the lock
Aborts(w) == pc[w] \in BeforeLock /\ pc'[w] = "recv"

\* The conditions under which the claim has process_file return
MustAbort(w) ==
    \/ pc[w] = "check_spool" /\ ~os_path_exists(Path(spool_path, request[w]))
    \/ pc[w] = "complete" /\ ~complete(dataset[w])
    \/ pc[w] = "lock" /\ HasFlag(states, get_dataset_key(dataset[w]),
                                 CHECKPOINT_DATASET_LOCKED)

C35_AbortChangesNothing ==
    [][(running /\ running') =>
        \A w \in Workers :
            /\ (MustAbort(w) /\ pc'[w] # pc[w]) => Aborts(w)
            /\ Aborts(w) =>
                  /\ MustAbort(w)
                  /\ UNCHANGED <<states, stateFile, fs, sidecar, datainstance,
                                 submitQ, inbox>>]_vars

\* The data file of a dataset was taken away after its .md5 file was
\* written; the job for it has come and gone, and nothing was written,
\* moved, published or queued
C35_Witness ==
    \E k \in Keys :
        /\ running /\ kills = 0 /\ removals = 1 /\ mainPc = "wait"
        /\ <<k, Md5Suffix>> \in fs[spool_path]
        /\ \A d \in Directories : <<k, DataSuffix>> \notin fs[d]
        /\ fs[destination_path] = {}
        /\ events = <<>> /\ ~JobFor(k)
        /\ \A w \in Workers : pc[w] = "recv"
        /\ stateFile = Missing /\ keys(states) = {}
        /\ datainstance = <<>>

(***************************************************************************)
(* C36. unlock_all clears LOCKED on every key of the persisted store and   *)
(* changes nothing else: after the call, in memory and in the state file,  *)
(* the keys are those the file held before it, no key is LOCKED, and       *)
(* EXISTS and MOVED of every key are as the file had them.                 *)
(***************************************************************************)
\* Store s is store old with LOCKED taken away and nothing else changed
OnlyUnlocked(s, old) ==
    /\ keys(s) = keys(old)
    /\ \A k \in CheckpointKeys :
          /\ ~HasFlag(s, k, CHECKPOINT_DATASET_LOCKED)
          /\ \A f \in KeptFlags : HasFlag(s, k, f) <=> HasFlag(old, k, f)

C36_UnlockAllFrame ==
    [][Checkpoint_unlock_all =>
          /\ ~load_raises(stateFile')
          /\ OnlyUnlocked(states', load(stateFile))
          /\ OnlyUnlocked(load(stateFile'), load(stateFile))]_vars

\* A store of two keys, one with EXISTS and MOVED and one with no flag left,
\* none LOCKED, on file as in memory: what unlock_all leaves of a store
\* where both keys were LOCKED
C36_Witness ==
    \E k1, k2 \in CheckpointKeys :
        /\ cpPc = "ready" /\ k1 # k2
        /\ keys(states) = {k1, k2}
        /\ states[k1] = BitOr(CHECKPOINT_DATASET_EXISTS, CHECKPOINT_DATASET_MOVED)
        /\ states[k2] = CHECKPOINT_DATASET_NOFLAGS
        /\ load(stateFile) = states

(***************************************************************************)
(* The Checkpoint class with its reading call: get(key) returns the mask   *)
(* of the key, or 0 for a key that is not in the map.                      *)
(***************************************************************************)
\* (mutant) get that enters the key it was asked for, as add does
Checkpoint_get_entering(key) ==
    /\ cpPc = "ready"
    /\ got' = [key |-> key, rc |-> get(states, key)]
    /\ Saved(add(states, key, CHECKPOINT_DATASET_NOFLAGS))
    /\ UNCHANGED <<cpPc, running, mainPc, killswitch, diskVars, queueVars,
                   workerVars, catalogVars, kills, removals, retry, alive,
                   exit_code, checked, parsed, posting, named>>

\* Checkpoint.get
Checkpoint_get(key) ==
    /\ cpPc = "ready"
    /\ got' = [key |-> key, rc |-> get(states, key)]
    /\ UNCHANGED <<cpVars, cpPc, running, mainPc, killswitch, diskVars, queueVars,
                   workerVars, catalogVars, kills, removals, retry, alive,
                   exit_code, checked, parsed, posting, named>>

NextStore ==
    \/ NextCheckpoint
    \/ \E key \in CheckpointKeys : Checkpoint_get(key)

SpecStore == InitCheckpoint /\ [][NextStore]_vars

(***************************************************************************)
(* C37. A key absent from the store behaves as mask 0 and reading has no   *)
(* effect: get(k) of a key that is not in the map returns 0 (and the mask  *)
(* of a key that is), and no get call changes the keys or the masks of the *)
(* map in memory or the state file.                                        *)
(***************************************************************************)
C37_GetReadsOnly ==
    [][got' # got =>
          /\ got'.key \notin keys(states) => got'.rc = 0
          /\ got'.key \in keys(states) => got'.rc = states[got'.key]
          /\ keys(states') = keys(states)
          /\ states' = states
          /\ stateFile' = stateFile]_vars

\* As in test_get_nosave: the store holds a key, get was called with another
\* one and returned 0, and neither the map nor a reload of the file has it
C37_Witness ==
    /\ cpPc = "ready"
    /\ got.key \in CheckpointKeys /\ got.rc = 0
    /\ keys(states) # {}
    /\ got.key \notin keys(states)
    /\ got.key \notin keys(load(stateFile))

(***************************************************************************)
(* C38. A dataset with a malformed file name does not stop the pipeline:   *)
(* the worker that handles its job is back at its socket afterwards, with  *)
(* no KILL sent to the main thread, so that the process stays up and other *)
(* jobs are still processed.                                               *)
(***************************************************************************)
C38_MalformedKeepsWorkers ==
    [][\A w \in Workers :
          (running /\ running' /\ pc[w] = "submit" /\ Malformed(w)
              /\ pc'[w] # pc[w])
          => (pc'[w] = "recv" /\ killswitch' = killswitch)]_vars

(***************************************************************************)
(* Resolve-or-create on its own: each worker calls find_or_create on one   *)
(* collection of the catalog (productinstance, data) with the key fields   *)
(* of its dataset, as productstatus_get_or_post does it: a query for the   *)
(* resources matching the fields, and, when there is none, a POST of a new *)
(* one.  The two requests of one caller are two steps, and the requests of *)
(* the callers reach the catalog in any order.                             *)
(***************************************************************************)
\* The key fields (product, reference time, version) of the datasets: two
\* datasets have the same ones or different ones
Parameters == {"BF 11120600 1", "BF 11121200 1", "BE 11120600 1"}

\* The resources of the collection that match the fields
Matching(resources, data) == {i \in 1..Len(resources) : resources[i] = data}

\* qs.filter(**data); qs.count(): the query, and resource = qs[0] when
\* something was found
productstatus_get_or_post_query(w) ==
    /\ posting.caller[w].at = "call"
    /\ LET qs == Matching(posting.resources, posting.caller[w].data) IN
       posting' =
          IF Cardinality(qs) = 0
          THEN [posting EXCEPT !.caller[w].at = "create"]
          ELSE [posting EXCEPT !.caller[w].at = "returned",
                               !.caller[w].resource =
                                   CHOOSE i \in qs : \A j \in qs : i <= j]
    /\ UNCHANGED <<procVars, diskVars, cpVars, queueVars, workerVars, catalogVars,
                   kills, removals, retry, alive, exit_code, checked, parsed,
                   got, named>>

\* resource = collection.create(); setattr ...; resource.save()
productstatus_get_or_post_create(w) ==
    /\ posting.caller[w].at = "create"
    /\ posting' =
          [posting EXCEPT !.resources = Append(@, posting.caller[w].data),
                          !.caller[w].at = "returned",
                          !.caller[w].resource = Len(posting.resources) + 1]
    /\ UNCHANGED <<procVars, diskVars, cpVars, queueVars, workerVars, catalogVars,
                   kills, removals, retry, alive, exit_code, checked, parsed,
                   got, named>>

InitPosting ==
    /\ running = FALSE
    /\ fs = [d \in Directories |-> {}]
    /\ sidecar = [k \in Keys |-> None]
    /\ stateFile = Missing
    /\ states = EmptyStates
    /\ cpPc = "unlock_all"
    /\ mainPc = "keys"
    /\ events = <<>>
    /\ submitQ = <<>>
    /\ inbox = [w \in Workers |-> <<>>]
    /\ killswitch = 0
    /\ pc = [w \in Workers |-> "recv"]
    /\ request = [w \in Workers |-> NoRequest]
    /\ full_path = [w \in Workers |-> NoPath]
    /\ dataset = [w \in Workers |-> NoDataset]
    /\ tries = [w \in Workers |-> 0]
    /\ raised = [w \in Workers |-> {}]
    /\ catalog = "up"
    /\ datainstance = <<>>
    /\ kills = 0
    /\ removals = 0
    /\ alive = Threads
    /\ exit_code = "unset"
    /\ checked = NoChecked
    /\ parsed = NoParsed
    /\ got = NoGot
    /\ named = NoNamed
    /\ retry = NoRetry
    /\ posting \in
          [resources : {<<>>} \cup {<<data>> : data \in Parameters},
           caller : [Workers -> [data : Parameters, at : {"call"},
                                 resource : {0}]]]

NextPosting ==
    \/ \E w \in Workers : productstatus_get_or_post_query(w)
    \/ \E w \in Workers : productstatus_get_or_post_create(w)

SpecPosting == InitPosting /\ [][NextPosting]_vars

(***************************************************************************)
(* C39. Resolve-or-create under concurrency: when the workers have         *)
(* published datasets with the same key fields, at most one resource of    *)
(* the collection has those fields, and the workers hold the same          *)
(* resource: the later one reuses what the earlier one created.            *)
(***************************************************************************)
C39_OneResourcePerKey ==
    (\A w \in Workers : posting.caller[w].at = "returned") =>
        /\ \A data \in Parameters :
              Cardinality(Matching(posting.resources, data)) <= 1
        /\ \A v, w \in Workers :
              posting.caller[v].data = posting.caller[w].data
                 => posting.caller[v].resource = posting.caller[w].resource

(***************************************************************************)
(* Dataset.parse_filename on its own: a Dataset object whose file name     *)
(* holds a start stamp, an end stamp and a version, called with any        *)
(* reference time, any number of times.                                    *)
(***************************************************************************)
\* filename[3:11] and filename[11:19]: dates (whose year depends on the
\* reference time), a date of leap years only, no date at all, and
\* underscores
Stamps ==
    {[month |-> 11, day |-> 12], [month |-> 12, day |-> 31],
     [month |-> 1, day |-> 1], [month |-> 2, day |-> 29],
     [month |-> 2, day |-> 31], Underscores}

\* filename[19:]
Versions == {"1", ""}

\* the 'now' parse_filename is called with
NowTimes == [year : NowYears, month : {1, 3, 12}]

\* int(filename[19:]) raises ValueError for a text that is not a number
int_raises(text) == text \notin {"1"}
int_of(text) == IF text = "1" THEN 1 ELSE 0

\* parse_filename_timestamp with its first lines: None (here -1) for
\* underscores, else the year of the timestamp, or 0 for a ValueError
filename_timestamp(stamp, now) ==
    IF stamp = Underscores THEN -1 ELSE parse_filename_timestamp(stamp, now)

ComponentNames ==
    {"analysis_start_time", "analysis_end_time", "name", "stream_use", "version"}

\* The try block of parse_filename raises ValueError
try_raises(filename, now) ==
    \/ filename_timestamp(filename.start, now) = 0
    \/ filename_timestamp(filename.end, now) = 0
    \/ int_raises(filename.version)

\* What the assignments of the try block have put into
\* self.filename_components when the block is left
try_assigned(filename, now) ==
    LET start == filename_timestamp(filename.start, now)
        end == filename_timestamp(filename.end, now)
        four == ("analysis_start_time" :> start) @@ ("analysis_end_time" :> end)
                   @@ ("name" :> 1) @@ ("stream_use" :> 1)
    IN IF start = 0 THEN EmptyComponents
       ELSE IF end = 0 THEN ("analysis_start_time" :> start)
       ELSE IF int_raises(filename.version) THEN four
       ELSE four @@ ("version" :> int_of(filename.version))

\* (mutant) the except clause leaves what was assigned
parse_filename_except_keeping(assigned) == assigned

\* except ValueError: self.filename_components = {}
parse_filename_except(assigned) == EmptyComponents

\* Dataset.parse_filename(now)
Dataset_parse_filename(now) ==
    /\ named.at # "idle"
    /\ named' =
          IF named.filename_components # EmptyComponents
          THEN [named EXCEPT !.at = "returned"]
          ELSE IF try_raises(named.filename, now)
          THEN [named EXCEPT
                   !.filename_components =
                       parse_filename_except(try_assigned(named.filename, now)),
                   !.at = "InvalidFilenameException"]
          ELSE [named EXCEPT
                   !.filename_components = try_assigned(named.filename, now),
                   !.at = "returned"]
    /\ UNCHANGED <<procVars, diskVars, cpVars, queueVars, workerVars, catalogVars,
                   kills, removals, retry, alive, exit_code, checked, parsed,
                   got, posting>>

InitFilename ==
    /\ running = FALSE
    /\ fs = [d \in Directories |-> {}]
    /\ sidecar = [k \in Keys |-> None]
    /\ stateFile = Missing
    /\ states = EmptyStates
    /\ cpPc = "unlock_all"
    /\ mainPc = "keys"
    /\ events = <<>>
    /\ submitQ = <<>>
    /\ inbox = [w \in Workers |-> <<>>]
    /\ killswitch = 0
    /\ pc = [w \in Workers |-> "recv"]
    /\ request = [w \in Workers |-> NoRequest]
    /\ full_path = [w \in Workers |-> NoPath]
    /\ dataset = [w \in Workers |-> NoDataset]
    /\ tries = [w \in Workers |-> 0]
    /\ raised = [w \in Workers |-> {}]
    /\ catalog = "up"
    /\ datainstance = <<>>
    /\ kills = 0
    /\ removals = 0
    /\ alive = Threads
    /\ exit_code = "unset"
    /\ checked = NoChecked
    /\ parsed = NoParsed
    /\ got = NoGot
    /\ posting = NoPosting
    /\ retry = NoRetry
    /\ named \in [filename : [start : Stamps, end : Stamps, version : Versions],
                  filename_components : {EmptyComponents}, at : {"new"}]

NextFilename == \E now \in NowTimes : Dataset_parse_filename(now)

SpecFilename == InitFilename /\ [][NextFilename]_vars

(***************************************************************************)
(* C40. parse_filename is idempotent and fails closed: after a call that   *)
(* returned, every later call, with any reference time, returns and leaves *)
(* the component map as it is; a call that does not return raises          *)
(* InvalidFilenameException and leaves the map empty; the map is never     *)
(* left with some of the five components only.                             *)
(***************************************************************************)
C40_IdempotentFailsClosed ==
    [][/\ named.at = "returned"
          => /\ named'.at = "returned"
             /\ named'.filename_components = named.filename_components
       /\ named'.at # "returned"
          => /\ named'.at = "InvalidFilenameException"
             /\ named'.filename_components = EmptyComponents
       /\ DOMAIN named'.filename_components \in {{}, ComponentNames}]_vars

\* A name with two dates and no version: four components were assigned
\* when int() raised, and the map is empty after the call
C40_Witness ==
    /\ named.at = "InvalidFilenameException"
    /\ named.filename.start = [month |-> 11, day |-> 12]
    /\ named.filename.end = [month |-> 11, day |-> 12]
    /\ named.filename.version = ""
    /\ named.filename_components = EmptyComponents

====
